---- MODULE Spec2Model ----
(***************************************************************************)
(* Agent run controller of blueberry-browser: LLMClient.sendChatMessage,   *)
(* LLMClient.abortActiveRun, LLMClient.geminiComputerUseLoop and           *)
(* GeminiComputerUseAgent.run, modelled as one process per submitted task. *)
(* Every action is the synchronous code between two awaits of the source.  *)
(***************************************************************************)
EXTENDS Integers, Sequences, FiniteSets, TLC

\* ------------------------------------------------------------------ bounds
MaxRuns == 2      \* tasks submitted in a session (one more in SpecThree)
MaxBudget == 2    \* largest step budget
MaxCalls == 2     \* most tool invocations in one model decision
MaxHist == 3      \* longest history a session is started with (SpecGiven)
MaxLearns == 3    \* learner runs enqueued (SpecLearn)

Runs == 1..(MaxRuns + 1)
ArrIds == 1..(MaxRuns + 2)

\* Tool names the model may propose (a part of the fixed vocabulary).
ActionNames == {"click_at", "wait"}

\* The batches of tool invocations a model decision may hold.
RECURSIVE SeqsUpTo(_)
SeqsUpTo(n) ==
  IF n = 0 THEN {<<>>}
  ELSE LET shorter == SeqsUpTo(n - 1)
       IN  shorter \cup {Append(s, a) : s \in {t \in shorter : Len(t) = n - 1}, a \in ActionNames}

Batches ==
  {b \in SeqsUpTo(MaxCalls) :
     \A i \in 1..Len(b) : b[i] = (IF i < Len(b) THEN "wait" ELSE "click_at")}

OneClick == <<"click_at">>

\* ---------------------------------------------------------------- history
PromptTurn(r, f) ==
  [role |-> "user", text |-> TRUE, img |-> f, fc |-> <<>>, fr |-> <<>>, by |-> r, step |-> 0]

ModelTurn(r, s, calls) ==
  [role |-> "model", text |-> (calls = <<>>), img |-> 0, fc |-> calls, fr |-> <<>>, by |-> r, step |-> s]

\* A tool-result turn that repeats the prompt text next to the results.
ToolResultTurnWithPrompt(r, s, results, f) ==
  [role |-> "user", text |-> TRUE, img |-> 0, fc |-> <<>>,
   fr |-> [i \in 1..Len(results) |-> [name |-> results[i], frame |-> f]],
   by |-> r, step |-> s]

\* A turn whose parts carry one frame per action instead of the frame after the batch.
ToolResultTurnFramePerAction(r, s, results, f) ==
  [role |-> "user", text |-> FALSE, img |-> 0, fc |-> <<>>,
   fr |-> [i \in 1..Len(results) |-> [name |-> results[i], frame |-> f + i - 1]],
   by |-> r, step |-> s]

ToolResultTurn(r, s, results, f) ==
  [role |-> "user", text |-> FALSE, img |-> 0, fc |-> <<>>,
   fr |-> [i \in 1..Len(results) |-> [name |-> results[i], frame |-> f]],
   by |-> r, step |-> s]

hasFunctionCall(content) == content.fc # <<>>

\* A user turn with a text part next to a functionResponse part.
MixedTurn(r) ==
  [role |-> "user", text |-> TRUE, img |-> 0, fc |-> <<>>,
   fr |-> <<[name |-> "click_at", frame |-> 1]>>, by |-> r, step |-> 1]

\* The test of the pruning loop: the last turn is a model turn with an invocation.
endsDangling(contents) ==
  /\ Len(contents) > 0
  /\ contents[Len(contents)].role = "model"
  /\ hasFunctionCall(contents[Len(contents)])

\* A pruning that pops one turn and stops.
pruneLastOnly(contents) ==
  IF endsDangling(contents) THEN SubSeq(contents, 1, Len(contents) - 1) ELSE contents

RECURSIVE pruneDanglingGeminiFunctionCalls(_)
pruneDanglingGeminiFunctionCalls(contents) ==
  IF endsDangling(contents)
  THEN pruneDanglingGeminiFunctionCalls(SubSeq(contents, 1, Len(contents) - 1))
  ELSE contents

\* Every turn the controller stores has a parts array, so each item is kept.
normalizeGeminiContents(input) == SelectSeq(input, LAMBDA item : item.role \in {"user", "model"})

assertValidGeminiComputerUseContents(contents) ==
  \A idx \in 1..Len(contents) :
     contents[idx].role = "user" => ~(contents[idx].text /\ contents[idx].fr # <<>>)

\* A repair that drops the offending turns and keeps the rest.
sanitizeDropsInvalidTurns(contents) ==
  SelectSeq(contents, LAMBDA item : ~(item.role = "user" /\ item.text /\ item.fr # <<>>))

sanitizeGeminiComputerUseContents(contents) ==
  IF assertValidGeminiComputerUseContents(contents) THEN contents ELSE <<>>

\* Error messages the run can meet, as lower-cased words, and the abort test
\* applied to them; NoError stands for a normal return.
NoError == <<>>
ErrAborted == <<"aborted">>
ErrCapture == <<"unable", "to", "capture", "a", "valid", "page", "screenshot">>
ErrScript == <<"script", "failed", "to", "execute">>
ErrModel == <<"fetch", "failed">>

isAbortError(e) == \E i \in 1..Len(e) : e[i] \in {"abort", "aborted"}

\* ------------------------------------------------------------------ state
VARIABLES
  activeRunAbortController,   \* run whose controller is stored, 0 = null
  activeRunMessageId,         \* message id of that run, 0 = null
  aborted,                    \* aborted[r]: signal of run r's controller
  geminiComputerUseContents,  \* array the field refers to, 0 = null
  heap,                       \* heap[a]: the turns of array a
  activeGeminiComputerUseRunId,
  maxSteps,                   \* step budget of the process
  run,                        \* locals of each run (loop and agent)
  obs,                        \* what each run did, as seen from outside
  given,                      \* the persisted history the session started with
  BERRY_DYNAMIC_PROMPT,       \* text of the general rules, as character codes
  selfImprovementPerSite,     \* site entries in insertion order
  selfImprovementInFlightCount,
  learner,                    \* what the learner runs did, as seen from outside
  call                        \* one call of a helper: its inputs and what it gave

controllerVars ==
  <<activeRunAbortController, activeRunMessageId, aborted, geminiComputerUseContents,
    heap, activeGeminiComputerUseRunId, maxSteps, run, obs, given>>

storeVars == <<BERRY_DYNAMIC_PROMPT, selfImprovementPerSite, selfImprovementInFlightCount, learner>>

vars == <<controllerVars, storeVars, call>>

NoRun ==
  [pc |-> "idle", step |-> 0, functionCalls |-> <<>>, executedResults |-> <<>>,
   contents |-> 0, hasAnyAction |-> FALSE, bufferedNavigation |-> <<>>,
   overlayStarted |-> FALSE, executedActions |-> <<>>, exit |-> "none",
   lastOk |-> TRUE]

NoObs ==
  [requests |-> 0, proposed |-> 0, frames |-> 0, turns |-> 0, navigation |-> <<>>,
   errorChunk |-> FALSE, outcome |-> "none", reqHist |-> <<>>, cancelPoint |-> "none",
   zeroAt |-> <<>>, complete |-> {}, reused |-> "none", actionThrew |-> FALSE]

\* No learner run has ended yet.
NoResponse == [kind |-> "none", general |-> <<>>, perSite |-> <<>>]

NoLearner ==
  [enqueued |-> 0, done |-> 0, response |-> NoResponse, overlapped |-> FALSE,
   learning |-> "none", repeated |-> FALSE]

\* No helper call is being looked at.
NoCall == [fn |-> "none"]

\* The process after construction, with no task submitted yet.
IdleSession ==
  /\ activeRunAbortController = 0
  /\ activeRunMessageId = 0
  /\ aborted = [r \in Runs |-> FALSE]
  /\ geminiComputerUseContents = 0
  /\ heap = [a \in ArrIds |-> <<>>]
  /\ activeGeminiComputerUseRunId = 0
  /\ maxSteps \in 1..MaxBudget
  /\ run = [r \in Runs |-> NoRun]
  /\ obs = [r \in Runs |-> NoObs]
  /\ given = <<>>
  /\ BERRY_DYNAMIC_PROMPT = <<>>
  /\ selfImprovementPerSite = <<>>
  /\ selfImprovementInFlightCount = 0
  /\ learner = NoLearner

Init == IdleSession /\ call = NoCall

Live(rn, r) == rn[r].pc \notin {"idle", "done"}

\* Arrays some run still holds a reference to.
Referenced(rn, a) == \E r \in Runs : Live(rn, r) /\ rn[r].contents = a

\* The array a fresh copy is stored in: the field's own array when nobody else
\* holds it, otherwise the first array nobody refers to.
FreshArr(rn) ==
  IF geminiComputerUseContents # 0 /\ ~Referenced(rn, geminiComputerUseContents)
  THEN geminiComputerUseContents
  ELSE CHOOSE a \in ArrIds :
         /\ a # geminiComputerUseContents
         /\ ~Referenced(rn, a)
         /\ \A b \in ArrIds : (b # geminiComputerUseContents /\ ~Referenced(rn, b)) => a <= b

\* Arrays nobody refers to any more are dropped.
Collect(h, field, rn) ==
  [a \in ArrIds |-> IF a = field \/ Referenced(rn, a) THEN h[a] ELSE <<>>]

\* ------------------------------------------------- navigation deltas (agent)
\* geminiComputerUseLoop's onNavigationDelta callback: dropped once aborted.
onNavigationDelta(r, o, delta) ==
  IF aborted[r] \/ delta = <<>> THEN o ELSE [o EXCEPT !.navigation = @ \o delta]

\* GeminiComputerUseAgent.run's emitNavigation, on the run record ...
emitNavigationRun(rr, text) ==
  IF ~rr.hasAnyAction
  THEN [rr EXCEPT !.bufferedNavigation = Append(@, text)]
  ELSE [rr EXCEPT !.bufferedNavigation = <<>>]

\* emitNavigation without its buffer: every text goes to the callback at once.
emitNavigationObsUnbuffered(r, rr, o, text) == onNavigationDelta(r, o, <<text>>)

\* ... and on what reaches the observers.
emitNavigationObs(r, rr, o, text) ==
  IF ~rr.hasAnyAction
  THEN o
  ELSE onNavigationDelta(r, onNavigationDelta(r, o, rr.bufferedNavigation), <<text>>)

\* ------------------------------------------------------- abortActiveRun
\* The UI streams of a message: chat-response, chat-reasoning, chat-navigation.
Streams == {"response", "reasoning", "navigation"}

\* An abort that leaves the navigation stream open.
completeOnAbortNoNavigation(messageId) ==
  IF messageId # 0 THEN {"reasoning", "response"} ELSE {}

\* The streams abortActiveRun marks complete for the message id it read.
completeOnAbort(messageId) ==
  IF messageId # 0 THEN {"reasoning", "navigation", "response"} ELSE {}

\* The streams marked complete when the loop returns normally ...
completeOnReturn(o) ==
  {"reasoning", "response"} \cup (IF o.navigation # <<>> THEN {"navigation"} ELSE {})

\* ... and by sendErrorMessage.
completeOnError == {"response", "reasoning"}

AbortTarget ==
  IF activeRunAbortController # 0 /\ ~aborted[activeRunAbortController]
  THEN activeRunAbortController
  ELSE 0

\* The body of abortActiveRun; rn is the run function of the next state.
abortActiveRun(rn) ==
  LET target == AbortTarget
  IN  /\ aborted' = IF target # 0 THEN [aborted EXCEPT ![target] = TRUE] ELSE aborted
      /\ obs' = IF target = 0 THEN obs
                ELSE LET o1 == [obs EXCEPT ![target].cancelPoint = run[target].pc]
                         messageId == activeRunMessageId
                     IN  IF messageId = 0 THEN o1
                         ELSE [o1 EXCEPT ![messageId].complete = @ \cup completeOnAbort(messageId)]
      /\ IF target # 0 /\ geminiComputerUseContents # 0
         THEN LET arr == FreshArr(rn)
                  pruned == pruneDanglingGeminiFunctionCalls(heap[geminiComputerUseContents])
              IN  /\ geminiComputerUseContents' = arr
                  /\ heap' = Collect([heap EXCEPT ![arr] = pruned], arr, rn)
         ELSE UNCHANGED <<geminiComputerUseContents, heap>>

\* ------------------------------------------------------- leaving a run
\* sendChatMessage's finally block without its "still the active run" test.
FinishRunAlwaysClears(r, rn, ob, exit, clearsOverlayRun) ==
  /\ activeGeminiComputerUseRunId' =
       IF clearsOverlayRun THEN 0 ELSE activeGeminiComputerUseRunId
  /\ run' = [rn EXCEPT ![r].pc = "done", ![r].contents = 0, ![r].functionCalls = <<>>,
                       ![r].executedResults = <<>>, ![r].bufferedNavigation = <<>>,
                       ![r].exit = exit, ![r].lastOk = TRUE]
  /\ obs' = [ob EXCEPT ![r].outcome = exit, ![r].errorChunk = (exit = "error"),
                       ![r].reqHist = <<>>,
                       ![r].complete = @ \cup (IF exit \in {"completed", "maxsteps"}
                                                THEN completeOnReturn(ob[r])
                                                ELSE IF exit = "error" THEN completeOnError
                                                ELSE {})]
  /\ activeRunAbortController' = 0
  /\ activeRunMessageId' = 0

\* The end of sendChatMessage for run r: the rest of geminiComputerUseLoop's
\* finally block, the error chunk of handleStreamError, and the finally block
\* of sendChatMessage.  rn and ob already hold the action's own updates.
FinishRun(r, rn, ob, exit, clearsOverlayRun) ==
  /\ activeGeminiComputerUseRunId' =
       IF clearsOverlayRun THEN 0 ELSE activeGeminiComputerUseRunId
  /\ run' = [rn EXCEPT ![r].pc = "done", ![r].contents = 0, ![r].functionCalls = <<>>,
                       ![r].executedResults = <<>>, ![r].bufferedNavigation = <<>>,
                       ![r].exit = exit, ![r].lastOk = TRUE]
  /\ obs' = [ob EXCEPT ![r].outcome = exit, ![r].errorChunk = (exit = "error"),
                       ![r].reqHist = <<>>,
                       ![r].complete = @ \cup (IF exit \in {"completed", "maxsteps"}
                                                THEN completeOnReturn(ob[r])
                                                ELSE IF exit = "error" THEN completeOnError
                                                ELSE {})]
  /\ IF activeRunMessageId = r
     THEN activeRunAbortController' = 0 /\ activeRunMessageId' = 0
     ELSE UNCHANGED <<activeRunAbortController, activeRunMessageId>>

\* agent.run has returned (e = NoError, how says why) or thrown e: the catch
\* and finally blocks of geminiComputerUseLoop.
Unwind(r, rn, ob, h, e, how) ==
  LET cancelled == e # NoError /\ (aborted[r] \/ isAbortError(e))
      exit == IF e = NoError THEN how ELSE IF cancelled THEN "cancelled" ELSE "error"
      rn1 == [rn EXCEPT ![r].contents = 0]
      prunes == cancelled /\ geminiComputerUseContents # 0
      arr == IF prunes THEN FreshArr(rn1) ELSE geminiComputerUseContents
      h1 == IF prunes
            THEN [h EXCEPT ![arr] = pruneDanglingGeminiFunctionCalls(h[geminiComputerUseContents])]
            ELSE h
  IN  /\ geminiComputerUseContents' = arr
      /\ IF activeGeminiComputerUseRunId # 0 /\ rn[r].overlayStarted
         THEN \* the overlay events of the finally block are awaited
              /\ run' = [rn1 EXCEPT ![r].pc = "finally", ![r].exit = exit]
              /\ obs' = ob
              /\ UNCHANGED <<activeGeminiComputerUseRunId, activeRunAbortController,
                             activeRunMessageId>>
         ELSE FinishRun(r, rn1, ob, exit, TRUE)
      /\ heap' = Collect(h1, arr, run')
      /\ UNCHANGED <<aborted, maxSteps>>

\* ------------------------------------------------------------- actions
\* sendChatMessage up to its first await.
Submit(r) ==
  /\ run[r].pc = "idle"
  /\ \A q \in Runs : q < r => run[q].pc # "idle"
  /\ run' = [run EXCEPT ![r].pc = "scm_wait"]
  /\ abortActiveRun(run')
  /\ activeRunAbortController' = r
  /\ activeRunMessageId' = r
  /\ UNCHANGED <<activeGeminiComputerUseRunId, maxSteps>>

\* The abort request of the chat panel.
Abort ==
  /\ AbortTarget # 0
  /\ abortActiveRun(run)
  /\ UNCHANGED <<activeRunAbortController, activeRunMessageId, activeGeminiComputerUseRunId,
                 maxSteps, run>>

\* geminiComputerUseLoop entered with the signal already raised.
LoopSkip(r) ==
  /\ run[r].pc = "scm_wait"
  /\ aborted[r]
  /\ FinishRun(r, run, obs, "skipped", FALSE)
  /\ UNCHANGED <<aborted, geminiComputerUseContents, heap, maxSteps>>

\* geminiComputerUseLoop up to the capture of the prompt frame.
LoopEnter(r) ==
  /\ run[r].pc = "scm_wait"
  /\ ~aborted[r]
  /\ LET old == IF geminiComputerUseContents = 0 THEN <<>> ELSE heap[geminiComputerUseContents]
         arr == FreshArr(run)
         new == sanitizeGeminiComputerUseContents(normalizeGeminiContents(old))
     IN  /\ geminiComputerUseContents' = arr
         /\ run' = [run EXCEPT ![r].pc = "init_capture"]
         /\ heap' = Collect([heap EXCEPT ![arr] = new], arr, run')
         /\ obs' = [obs EXCEPT ![r].reused = IF endsDangling(new) THEN "dangling" ELSE "clean"]
  /\ UNCHANGED <<activeRunAbortController, activeRunMessageId, aborted,
                 activeGeminiComputerUseRunId, maxSteps>>

\* The model decision request of a step.
RequestModel(r, rr, o, h) ==
  [rr |-> [emitNavigationRun(rr, "step") EXCEPT !.pc = "stream"],
   o  |-> [emitNavigationObs(r, rr, o, "step") EXCEPT
             !.requests = @ + 1, !.reqHist = h[rr.contents]]]

\* The prompt frame is captured: the prompt turn is appended to the array the
\* field refers to now, and agent.run starts on that same array.
InitCaptureOk(r) ==
  /\ run[r].pc = "init_capture"
  /\ geminiComputerUseContents # 0
  /\ LET f == obs[r].frames + 1
         h == [heap EXCEPT ![geminiComputerUseContents] = Append(@, PromptTurn(r, f))]
         rr == [run[r] EXCEPT !.contents = geminiComputerUseContents, !.step = 0]
         o == [obs[r] EXCEPT !.frames = f]
         nx == RequestModel(r, rr, o, h)
     IN  /\ run' = [run EXCEPT ![r] = nx.rr]
         /\ obs' = [obs EXCEPT ![r] = nx.o]
         /\ heap' = h
  /\ activeGeminiComputerUseRunId' = r
  /\ UNCHANGED <<activeRunAbortController, activeRunMessageId, aborted,
                 geminiComputerUseContents, maxSteps>>

\* captureActiveTabPngBase64 gives up: thrown before the try block of the loop.
InitCaptureFail(r) ==
  /\ run[r].pc = "init_capture"
  /\ FinishRun(r, run, obs, IF isAbortError(ErrCapture) THEN "cancelled" ELSE "error", FALSE)
  /\ heap' = Collect(heap, geminiComputerUseContents, run')
  /\ UNCHANGED <<aborted, geminiComputerUseContents, maxSteps>>

\* The loop walking the invocations from the last to the first.
nextCallFromEnd(rr) == rr.functionCalls[Len(rr.functionCalls) - Len(rr.executedResults)]

\* The invocation the for-of loop over functionCalls is at.
nextCall(rr) == rr.functionCalls[Len(rr.executedResults) + 1]

\* executeAction callback from its abort check to the dispatch of line 2144.
dispatchAction(rr) ==
  [rr EXCEPT !.pc = "acting",
             !.executedActions = Append(@, [name |-> nextCall(rr), step |-> rr.step + 1])]

\* The agent announces the next invocation and calls executeAction: the abort
\* check, then the overlay start, which is awaited the first time.
BeginAction(r, rr, o, h) ==
  LET rr1 == emitNavigationRun(rr, "action")
      o1 == emitNavigationObs(r, rr, o, "action")
  IN  IF aborted[r]
      THEN Unwind(r, [run EXCEPT ![r] = rr1], [obs EXCEPT ![r] = o1], h, ErrAborted, "none")
      ELSE /\ run' = [run EXCEPT ![r] =
                        IF rr1.overlayStarted
                        THEN dispatchAction(rr1)
                        ELSE [rr1 EXCEPT !.pc = "act_pre", !.overlayStarted = TRUE]]
           /\ obs' = [obs EXCEPT ![r] = o1]
           /\ heap' = h
           /\ UNCHANGED <<activeRunAbortController, activeRunMessageId, aborted,
                          geminiComputerUseContents, activeGeminiComputerUseRunId, maxSteps>>

\* The for-of loop over functionCalls: the next invocation, or the frame after
\* the batch once every invocation has returned.
ContinueBatch(r, rr, o, h) ==
  IF Len(rr.executedResults) < Len(rr.functionCalls)
  THEN BeginAction(r, rr, o, h)
  ELSE /\ run' = [run EXCEPT ![r] = [rr EXCEPT !.pc = "post_capture"]]
       /\ obs' = [obs EXCEPT ![r] = o]
       /\ heap' = h
       /\ UNCHANGED <<activeRunAbortController, activeRunMessageId, aborted,
                      geminiComputerUseContents, activeGeminiComputerUseRunId, maxSteps>>

\* A test that never sees the empty decision.
noMoreActionsNever(calls) == Len(calls) < 0

\* functionCalls.length === 0: the task is complete.
noMoreActions(calls) == Len(calls) = 0

\* A step loop that runs one step too many.
stepsLeftInclusive(step) == step <= maxSteps

\* The loop condition of the step loop.
stepsLeft(step) == step < maxSteps

Snapshot(rr, o) ==
  <<[requests |-> o.requests, actions |-> Len(rr.executedActions),
     frames |-> o.frames, turns |-> o.turns]>>

\* The model stream of the step ends with the decision `calls`.
StreamDone(r, calls) ==
  /\ run[r].pc = "stream"
  /\ LET h == [heap EXCEPT ![run[r].contents] = Append(@, ModelTurn(r, run[r].step + 1, calls))]
         rr0 == [run[r] EXCEPT !.functionCalls = calls, !.executedResults = <<>>,
                                !.lastOk = TRUE]
         o0 == [obs[r] EXCEPT !.proposed = @ + Len(calls),
                              !.zeroAt = IF Len(calls) = 0 THEN Snapshot(rr0, obs[r]) ELSE @]
     IN  IF noMoreActions(calls)
         THEN LET rr1 == emitNavigationRun(rr0, "done")
                  o1 == emitNavigationObs(r, rr0, o0, "done")
              IN  Unwind(r, [run EXCEPT ![r] = rr1], [obs EXCEPT ![r] = o1], h, NoError, "completed")
         ELSE LET o1 == IF rr0.hasAnyAction THEN o0
                        ELSE onNavigationDelta(r, o0, rr0.bufferedNavigation)
                  rr1 == [rr0 EXCEPT !.hasAnyAction = TRUE, !.bufferedNavigation = <<>>]
              IN  ContinueBatch(r, rr1, o1, h)

\* The model call fails.
StreamFail(r) ==
  /\ run[r].pc = "stream"
  /\ Unwind(r, run, obs, heap, ErrModel, "none")

\* The overlay start has been delivered: the invocation goes to
\* executeComputerUseAction.
ActionDispatch(r) ==
  /\ run[r].pc = "act_pre"
  /\ run' = [run EXCEPT ![r] = dispatchAction(run[r])]
  /\ UNCHANGED <<activeRunAbortController, activeRunMessageId, aborted,
                 geminiComputerUseContents, heap, activeGeminiComputerUseRunId, maxSteps, obs>>

\* executeComputerUseAction returns its result.
ActionReturn(r) ==
  /\ run[r].pc = "acting"
  /\ IF aborted[r]
     THEN Unwind(r, run, obs, heap, ErrAborted, "none")
     ELSE LET rr == [run[r] EXCEPT !.executedResults = Append(@, nextCall(run[r]))]
          IN  ContinueBatch(r, [rr EXCEPT !.lastOk = TRUE], obs[r], heap)

\* executeComputerUseAction throws: no tab is active at its first line, or the
\* size script it runs before the try block is rejected.
ActionFail(r) ==
  /\ run[r].pc = "acting"
  /\ Unwind(r, run, [obs EXCEPT ![r].actionThrew = TRUE], heap, ErrScript, "none")

\* The surface fails inside the try block of executeComputerUseAction: the
\* catch turns the error into a result with ok=false.
ActionCaught(r) ==
  /\ run[r].pc = "acting"
  /\ IF aborted[r]
     THEN Unwind(r, run, obs, heap, ErrAborted, "none")
     ELSE LET rr == [run[r] EXCEPT !.executedResults = Append(@, nextCall(run[r]))]
          IN  ContinueBatch(r, [rr EXCEPT !.lastOk = FALSE], obs[r], heap)

\* The frame after the batch: the tool-result turn, then the next step.
PostCaptureOk(r) ==
  /\ run[r].pc = "post_capture"
  /\ LET f == obs[r].frames + 1
         turn == ToolResultTurn(r, run[r].step + 1, run[r].executedResults, f)
         h == [heap EXCEPT ![run[r].contents] = Append(@, turn)]
         rr == [run[r] EXCEPT !.step = @ + 1]
         o == [obs[r] EXCEPT !.frames = f, !.turns = @ + 1]
     IN  IF stepsLeft(rr.step)
         THEN LET nx == RequestModel(r, rr, o, h)
              IN  /\ run' = [run EXCEPT ![r] = nx.rr]
                  /\ obs' = [obs EXCEPT ![r] = nx.o]
                  /\ heap' = h
                  /\ UNCHANGED <<activeRunAbortController, activeRunMessageId, aborted,
                                 geminiComputerUseContents, activeGeminiComputerUseRunId,
                                 maxSteps>>
         ELSE Unwind(r, [run EXCEPT ![r] = emitNavigationRun(rr, "stopped")],
                     [obs EXCEPT ![r] = emitNavigationObs(r, rr, o, "stopped")],
                     h, NoError, "maxsteps")

\* captureActiveTabPngBase64 gives up after the batch.
PostCaptureFail(r) ==
  /\ run[r].pc = "post_capture"
  /\ Unwind(r, run, obs, heap, ErrCapture, "none")

\* The overlay events of the finally block have been delivered.
FinallyDone(r) ==
  /\ run[r].pc = "finally"
  /\ FinishRun(r, run, obs, run[r].exit, TRUE)
  /\ UNCHANGED <<aborted, geminiComputerUseContents, heap, maxSteps>>

\* The stored instructions and the given history are left alone by the controller.
sessionFrame == <<given, storeVars, call>>

Next ==
  \/ \E r \in 1..MaxRuns : Submit(r) /\ UNCHANGED sessionFrame
  \/ Abort /\ UNCHANGED sessionFrame
  \/ \E r \in Runs : LoopSkip(r) /\ UNCHANGED sessionFrame
  \/ \E r \in Runs : LoopEnter(r) /\ UNCHANGED sessionFrame
  \/ \E r \in Runs : InitCaptureOk(r) /\ UNCHANGED sessionFrame
  \/ \E r \in Runs : InitCaptureFail(r) /\ UNCHANGED sessionFrame
  \/ \E r \in Runs, calls \in Batches : StreamDone(r, calls) /\ UNCHANGED sessionFrame
  \/ \E r \in Runs : StreamFail(r) /\ UNCHANGED sessionFrame
  \/ \E r \in Runs : ActionDispatch(r) /\ UNCHANGED sessionFrame
  \/ \E r \in Runs : ActionReturn(r) /\ UNCHANGED sessionFrame
  \/ \E r \in Runs : ActionFail(r) /\ UNCHANGED sessionFrame
  \/ \E r \in Runs : ActionCaught(r) /\ UNCHANGED sessionFrame
  \/ \E r \in Runs : PostCaptureOk(r) /\ UNCHANGED sessionFrame
  \/ \E r \in Runs : PostCaptureFail(r) /\ UNCHANGED sessionFrame
  \/ \E r \in Runs : FinallyDone(r) /\ UNCHANGED sessionFrame

Spec == Init /\ [][Next]_vars

\* A session of one more task, in which nothing fails and every model decision
\* is one click.
NextThree ==
  \/ \E r \in Runs : Submit(r) /\ UNCHANGED sessionFrame
  \/ \E r \in Runs : LoopSkip(r) /\ UNCHANGED sessionFrame
  \/ \E r \in Runs : LoopEnter(r) /\ UNCHANGED sessionFrame
  \/ \E r \in Runs : InitCaptureOk(r) /\ UNCHANGED sessionFrame
  \/ \E r \in Runs : StreamDone(r, OneClick) /\ UNCHANGED sessionFrame
  \/ \E r \in Runs : ActionDispatch(r) /\ UNCHANGED sessionFrame
  \/ \E r \in Runs : ActionReturn(r) /\ UNCHANGED sessionFrame
  \/ \E r \in Runs : PostCaptureOk(r) /\ UNCHANGED sessionFrame
  \/ \E r \in Runs : FinallyDone(r) /\ UNCHANGED sessionFrame

SpecThree == Init /\ [][NextThree]_vars

\* ------------------------------------------------------ instruction store
\* Strings are sequences of character codes.
GeneralLimit == 20   \* general rules kept from a learner result
PerSiteLimit == 12   \* rules kept for one site
SiteLimit == 30      \* site entries kept
PromptLimit == 50    \* bullets setBerrySpecialInstructions writes

\* \s of the regular expressions: the space and the line feed.
IsSpace(c) == c \in {32, 10, 13}

RECURSIVE trimStart(_)
trimStart(s) == IF s # <<>> /\ IsSpace(s[1]) THEN trimStart(Tail(s)) ELSE s

RECURSIVE trimEnd(_)
trimEnd(s) ==
  IF s # <<>> /\ IsSpace(s[Len(s)]) THEN trimEnd(SubSeq(s, 1, Len(s) - 1)) ELSE s

trim(s) == trimEnd(trimStart(s))

toLowerCase(s) == [i \in 1..Len(s) |-> IF s[i] \in 65..90 THEN s[i] + 32 ELSE s[i]]

\* replace(/\s+/g, " ")
RECURSIVE collapseWhitespace(_, _)
collapseWhitespace(s, i) ==
  IF i > Len(s) THEN <<>>
  ELSE IF ~IsSpace(s[i]) THEN <<s[i]>> \o collapseWhitespace(s, i + 1)
  ELSE IF i > 1 /\ IsSpace(s[i - 1]) THEN collapseWhitespace(s, i + 1)
  ELSE <<32>> \o collapseWhitespace(s, i + 1)

canonicalize(s) == collapseWhitespace(toLowerCase(trim(s)), 1)

\* replace(/^[-\s]+/, "")
RECURSIVE dropDashes(_)
dropDashes(s) == IF s # <<>> /\ (s[1] = 45 \/ IsSpace(s[1])) THEN dropDashes(Tail(s)) ELSE s

stripBullet(b) == IF b # <<>> /\ b[1] = 45 THEN trim(dropDashes(b)) ELSE b

RECURSIVE dedupe(_, _, _)
dedupe(bs, i, seen) ==
  IF i > Len(bs) THEN <<>>
  ELSE LET key == canonicalize(bs[i])
       IN  IF key = <<>> \/ key \in seen
           THEN dedupe(bs, i + 1, seen)
           ELSE <<bs[i]>> \o dedupe(bs, i + 1, seen \cup {key})

slice(xs, n) == SubSeq(xs, 1, IF Len(xs) < n THEN Len(xs) ELSE n)

\* A normalisation that forgets the limit.
normalizeInstructionBulletsNoLimit(raw, limit) ==
  LET trimmed == [i \in 1..Len(raw) |-> trim(raw[i])]
      nonEmpty == SelectSeq(trimmed, LAMBDA b : Len(b) > 0)
  IN  dedupe([i \in 1..Len(nonEmpty) |-> stripBullet(nonEmpty[i])], 1, {})

normalizeInstructionBullets(raw, limit) ==
  LET trimmed == [i \in 1..Len(raw) |-> trim(raw[i])]
      nonEmpty == SelectSeq(trimmed, LAMBDA b : Len(b) > 0)
      normalized == [i \in 1..Len(nonEmpty) |-> stripBullet(nonEmpty[i])]
  IN  slice(dedupe(normalized, 1, {}), limit)

\* The heading line of the text (any line that does not start with "- ").
Heading == <<35, 35, 35>>

RECURSIVE joinBullets(_, _)
joinBullets(bs, i) ==
  IF i > Len(bs) THEN <<>> ELSE <<10, 45, 32>> \o bs[i] \o joinBullets(bs, i + 1)

\* The text setBerrySpecialInstructions stores for `bullets`.
setBerrySpecialInstructions(bullets) ==
  LET limited == normalizeInstructionBullets(bullets, PromptLimit)
  IN  IF limited = <<>> THEN <<>> ELSE Heading \o joinBullets(limited, 1)

\* split(/\r?\n/)
RECURSIVE splitLines(_, _, _)
splitLines(s, i, line) ==
  IF i > Len(s) THEN <<line>>
  ELSE IF s[i] = 10 THEN <<line>> \o splitLines(s, i + 1, <<>>)
  ELSE splitLines(s, i + 1, Append(line, s[i]))

\* The general rules read back from the text.
getCurrentGeneralInstructions(text) ==
  LET lines == splitLines(text, 1, <<>>)
      trimmed == [i \in 1..Len(lines) |-> trim(lines[i])]
      marked == SelectSeq(trimmed, LAMBDA l : Len(l) >= 2 /\ l[1] = 45 /\ l[2] = 32)
      bullets == [i \in 1..Len(marked) |-> trim(dropDashes(marked[i]))]
  IN  normalizeInstructionBullets(bullets, GeneralLimit)

\* replace(/^[a-z]+:\/\//i, "") on a lower-cased host
stripScheme(s) ==
  LET at == {k \in 2..(Len(s) - 2) :
               /\ s[k] = 58 /\ s[k + 1] = 47 /\ s[k + 2] = 47
               /\ \A j \in 1..(k - 1) : s[j] \in 97..122}
  IN  IF at = {} THEN s
      ELSE LET k == CHOOSE x \in at : \A y \in at : x <= y
           IN  SubSeq(s, k + 3, Len(s))

\* split("/")[0]
beforeSlash(s) ==
  LET at == {k \in 1..Len(s) : s[k] = 47}
  IN  IF at = {} THEN s
      ELSE SubSeq(s, 1, (CHOOSE x \in at : \A y \in at : x <= y) - 1)

stripWww(s) ==
  IF Len(s) >= 4 /\ SubSeq(s, 1, 4) = <<119, 119, 119, 46>> THEN SubSeq(s, 5, Len(s)) ELSE s

\* For the keys drawn here (no port, no user info) the URL parser of the
\* https branch gives the host the later steps give.
normalizeSiteKey(raw) ==
  LET input == trim(raw)
  IN  IF input = <<>> THEN <<>>
      ELSE trim(stripWww(beforeSlash(stripScheme(toLowerCase(trim(input))))))

\* out[k] = v for each entry in turn, on an object: a key stands where it was
\* first set and holds what was set last.
assignAll(out, entries) ==
  LET all == out \o entries
      firsts == SelectSeq([i \in 1..Len(all) |-> i],
                          LAMBDA i : \A j \in 1..(i - 1) : all[j].key # all[i].key)
      lastOf(k) == CHOOSE i \in 1..Len(all) :
                     /\ all[i].key = k
                     /\ \A j \in (i + 1)..Len(all) : all[j].key # k
  IN  [n \in 1..Len(firsts) |->
         [key |-> all[firsts[n]].key, bullets |-> all[lastOf(all[firsts[n]].key)].bullets]]

\* The loop over Object.entries that keeps the valid non-empty entries.
putEntries(out, entries) ==
  LET normalized == [i \in 1..Len(entries) |->
                       [key |-> normalizeSiteKey(entries[i].key),
                        bullets |-> normalizeInstructionBullets(entries[i].bullets, PerSiteLimit)]]
  IN  assignAll(out, SelectSeq(normalized, LAMBDA e : e.key # <<>> /\ e.bullets # <<>>))

normalizePerSite(raw) == slice(putEntries(<<>>, raw), SiteLimit)

mergePerSiteInstructions(existing, incoming) ==
  slice(putEntries(putEntries(<<>>, existing), incoming), SiteLimit)

\* A count that is never taken down.
bumpSelfImprovementLearningUpOnly(prev, delta) == IF delta > 0 THEN prev + delta ELSE prev

bumpSelfImprovementLearning(prev, delta) == IF prev + delta < 0 THEN 0 ELSE prev + delta

\* A broadcast that says "active" at every learner run that starts.
learningBroadcastAtEveryStart(prev, delta) ==
  LET next == bumpSelfImprovementLearning(prev, delta)
  IN  IF next > prev THEN "active"
      ELSE IF prev > 0 /\ next = 0 THEN "inactive"
      ELSE "none"

\* What bumpSelfImprovementLearning broadcasts on "self-improvement-learning".
learningBroadcast(prev, delta) ==
  LET next == bumpSelfImprovementLearning(prev, delta)
  IN  IF prev = 0 /\ next > 0 THEN "active"
      ELSE IF prev > 0 /\ next = 0 THEN "inactive"
      ELSE "none"

\* The windows receive what a bump by delta broadcasts: learner.learning is
\* the last value they heard, learner.repeated whether a broadcast repeated
\* the one before it or the first one was "inactive".
broadcastSelfImprovementLearning(l, delta) ==
  LET active == learningBroadcast(selfImprovementInFlightCount, delta)
  IN  IF active = "none" THEN l
      ELSE [l EXCEPT !.learning = active,
                     !.repeated = @ \/ l.learning = active
                                    \/ (l.learning = "none" /\ active = "inactive")]

\* --------------------------------------------------- what the learner returns
RuleA == <<97>>
RuleB == <<98>>
RuleBVariant == <<32, 66>>
RuleC == <<99>>

\* More distinct rules than any limit keeps.
ManyRules(n) == [i \in 1..n |-> <<400 + i>>]

GeneralOutputs ==
  {<<>>,
   <<RuleA, RuleB>>,
   <<RuleBVariant, RuleC>>,
   ManyRules(GeneralLimit + 2),
   <<<<45, 32, 97>>, <<65, 32>>, <<97, 10, 45, 32, 98>>, RuleB>>}

SiteName(i) == <<300 + i>>

PerSiteOutputs ==
  {<<>>,
   [i \in 1..SiteLimit |-> [key |-> SiteName(i), bullets |-> <<RuleA>>]],
   <<[key |-> <<119, 119, 119, 46>> \o SiteName(SiteLimit + 1) \o <<47, 120>>,
      bullets |-> <<RuleC>>]>>,
   <<[key |-> <<65>>, bullets |-> ManyRules(PerSiteLimit + 2) \o <<RuleA, <<65>>>>]>>,
   <<[key |-> <<32>>, bullets |-> <<RuleA>>], [key |-> SiteName(1), bullets |-> <<<<32>>>>]>>}

\* What the generation call gives: it throws, or its text is no JSON, or its
\* text is an object with the two fields.
Responses ==
  {[kind |-> "throws", general |-> <<>>, perSite |-> <<>>],
   [kind |-> "invalid", general |-> <<>>, perSite |-> <<>>]}
  \cup [kind : {"object"}, general : GeneralOutputs, perSite : PerSiteOutputs]

\* perSite[k.trim()] = arr for the entries with a non-blank key
trimmedEntries(entries) ==
  LET trimmed == [i \in 1..Len(entries) |->
                    [key |-> trim(entries[i].key), bullets |-> entries[i].bullets]]
  IN  assignAll(<<>>, SelectSeq(trimmed, LAMBDA e : e.key # <<>>))

\* generateSelfImprovementObject past the generation call.
generateSelfImprovementObject(res) ==
  IF res.kind = "object"
  THEN [general |-> res.general, perSite |-> trimmedEntries(res.perSite)]
  ELSE [general |-> <<>>, perSite |-> <<>>]

\* ------------------------------------------------------------ learner runs
\* enqueueSelfImprovementFromComputerUseRun up to the generation call, with
\* the learner enabled and an API key present.
Enqueue ==
  /\ learner.enqueued < MaxLearns
  /\ selfImprovementInFlightCount' = bumpSelfImprovementLearning(selfImprovementInFlightCount, 1)
  /\ learner' = broadcastSelfImprovementLearning([learner EXCEPT !.enqueued = @ + 1], 1)
  /\ UNCHANGED <<BERRY_DYNAMIC_PROMPT, selfImprovementPerSite, controllerVars, call>>

\* The generation call throws: the catch and the finally block.
LearnerThrows(res) ==
  /\ res.kind = "throws"
  /\ learner.done < learner.enqueued
  /\ selfImprovementInFlightCount' = bumpSelfImprovementLearning(selfImprovementInFlightCount, -1)
  /\ learner' = broadcastSelfImprovementLearning(
                   [learner EXCEPT !.done = @ + 1, !.response = res,
                                   !.overlapped = (selfImprovementInFlightCount >= 2)], -1)
  /\ UNCHANGED <<BERRY_DYNAMIC_PROMPT, selfImprovementPerSite, controllerVars, call>>

\* The generation call returns: the result is normalised and stored.
LearnerReturns(res) ==
  /\ res.kind # "throws"
  /\ learner.done < learner.enqueued
  /\ LET obj == generateSelfImprovementObject(res)
         general == normalizeInstructionBullets(obj.general, GeneralLimit)
         perSite == normalizePerSite(obj.perSite)
     IN  IF Len(general) = 0 /\ Len(perSite) = 0
         THEN UNCHANGED <<BERRY_DYNAMIC_PROMPT, selfImprovementPerSite>>
         ELSE /\ BERRY_DYNAMIC_PROMPT' =
                   IF Len(general) > 0 THEN setBerrySpecialInstructions(general)
                   ELSE BERRY_DYNAMIC_PROMPT
              /\ selfImprovementPerSite' =
                   mergePerSiteInstructions(selfImprovementPerSite, perSite)
  /\ selfImprovementInFlightCount' = bumpSelfImprovementLearning(selfImprovementInFlightCount, -1)
  /\ learner' = broadcastSelfImprovementLearning(
                   [learner EXCEPT !.done = @ + 1, !.response = res,
                                   !.overlapped = (selfImprovementInFlightCount >= 2)], -1)
  /\ UNCHANGED <<controllerVars, call>>

NextLearn ==
  \/ Enqueue
  \/ \E res \in Responses : LearnerThrows(res)
  \/ \E res \in Responses : LearnerReturns(res)

SpecLearn == Init /\ [][NextLearn]_vars

\* The end of geminiComputerUseLoop past its finally block, reached when
\* agent.run returned: the learner is enqueued for run r.
EnqueueAfter(r) ==
  /\ IF run[r].pc # "done" /\ run'[r].pc = "done" /\ run'[r].exit \in {"completed", "maxsteps"}
     THEN /\ selfImprovementInFlightCount' =
               bumpSelfImprovementLearning(selfImprovementInFlightCount, 1)
          /\ learner' = broadcastSelfImprovementLearning(
                           [learner EXCEPT !.enqueued = @ + 1], 1)
     ELSE UNCHANGED <<selfImprovementInFlightCount, learner>>
  /\ UNCHANGED <<BERRY_DYNAMIC_PROMPT, selfImprovementPerSite, given, call>>

\* The session with the learner enqueued at the end of a run; a decision is
\* one click or none, and a learner run ends by a throw.
NextEnqueue ==
  \/ \E r \in 1..MaxRuns : Submit(r) /\ EnqueueAfter(r)
  \/ Abort /\ UNCHANGED sessionFrame
  \/ \E r \in Runs : LoopSkip(r) /\ EnqueueAfter(r)
  \/ \E r \in Runs : LoopEnter(r) /\ EnqueueAfter(r)
  \/ \E r \in Runs : InitCaptureOk(r) /\ EnqueueAfter(r)
  \/ \E r \in Runs : InitCaptureFail(r) /\ EnqueueAfter(r)
  \/ \E r \in Runs, calls \in {<<>>, OneClick} : StreamDone(r, calls) /\ EnqueueAfter(r)
  \/ \E r \in Runs : StreamFail(r) /\ EnqueueAfter(r)
  \/ \E r \in Runs : ActionDispatch(r) /\ EnqueueAfter(r)
  \/ \E r \in Runs : ActionReturn(r) /\ EnqueueAfter(r)
  \/ \E r \in Runs : ActionFail(r) /\ EnqueueAfter(r)
  \/ \E r \in Runs : ActionCaught(r) /\ EnqueueAfter(r)
  \/ \E r \in Runs : PostCaptureOk(r) /\ EnqueueAfter(r)
  \/ \E r \in Runs : PostCaptureFail(r) /\ EnqueueAfter(r)
  \/ \E r \in Runs : FinallyDone(r) /\ EnqueueAfter(r)
  \/ \E res \in {x \in Responses : x.kind = "throws"} : LearnerThrows(res)

SpecEnqueue == Init /\ [][NextEnqueue]_vars

\* ------------------------------------------- a session with a given history
\* The turns a stored history may hold: a prompt, a tool result, a user turn
\* with both, a model turn with an invocation, a model turn with text.
GivenTurns ==
  {PromptTurn(0, 1), ToolResultTurn(0, 1, OneClick, 1), MixedTurn(0),
   ModelTurn(0, 1, OneClick), ModelTurn(0, 1, <<>>)}

RECURSIVE HistoriesUpTo(_)
HistoriesUpTo(n) ==
  IF n = 0 THEN {<<>>}
  ELSE LET shorter == HistoriesUpTo(n - 1)
       IN  shorter \cup {Append(h, t) : h \in {g \in shorter : Len(g) = n - 1}, t \in GivenTurns}

\* The controller holds an arbitrary history when the task is submitted.
InitGiven ==
  /\ activeRunAbortController = 0
  /\ activeRunMessageId = 0
  /\ aborted = [r \in Runs |-> FALSE]
  /\ given \in HistoriesUpTo(MaxHist)
  /\ geminiComputerUseContents = 1
  /\ heap = [a \in ArrIds |-> IF a = 1 THEN given ELSE <<>>]
  /\ activeGeminiComputerUseRunId = 0
  /\ maxSteps \in 1..MaxBudget
  /\ run = [r \in Runs |-> NoRun]
  /\ obs = [r \in Runs |-> NoObs]
  /\ BERRY_DYNAMIC_PROMPT = <<>>
  /\ selfImprovementPerSite = <<>>
  /\ selfImprovementInFlightCount = 0
  /\ learner = NoLearner
  /\ call = NoCall

\* One task on top of the given history, up to its first model request.
NextGiven ==
  \/ Submit(1) /\ UNCHANGED sessionFrame
  \/ Abort /\ UNCHANGED sessionFrame
  \/ LoopSkip(1) /\ UNCHANGED sessionFrame
  \/ LoopEnter(1) /\ UNCHANGED sessionFrame
  \/ InitCaptureOk(1) /\ UNCHANGED sessionFrame

SpecGiven == InitGiven /\ [][NextGiven]_vars

TypeOK ==
  /\ activeRunAbortController \in {0} \cup Runs
  /\ geminiComputerUseContents \in {0} \cup ArrIds
  /\ \A r \in Runs : run[r].step <= maxSteps

\* ------------------------------------------------------ action executor
\* Coordinate values may have a fraction and are counted in tenths: m stands
\* for m / 10.
DEFAULT_COMPUTER_USE_SCREEN_WIDTH == 1440
DEFAULT_COMPUTER_USE_SCREEN_HEIGHT == 900

Min(a, b) == IF a < b THEN a ELSE b
Max(a, b) == IF a > b THEN a ELSE b
Abs(a) == IF a < 0 THEN -a ELSE a

\* Math.round of p / q for q > 0: the nearest integer, halves go up.
round(p, q) == (2 * p + q) \div (2 * q)

\* diffRatio and frameSignatureDiffRatio, as the pair <<sum, count * 255>> of
\* the quotient they return;
\* <<1, 1>> is the 1 it returns when there is nothing to compare.
diffRatio(a, b) ==
  LET len == Min(Len(a), Len(b))
      at == {i \in 0..(len - 1) : i % 16 = 0 /\ i + 2 < len}
      diff(i) == Abs(a[i + 1] - b[i + 1]) + Abs(a[i + 2] - b[i + 2]) + Abs(a[i + 3] - b[i + 3])
      RECURSIVE sum(_)
      sum(S) == IF S = {} THEN 0 ELSE LET i == CHOOSE x \in S : TRUE IN diff(i) + sum(S \ {i})
  IN  IF len <= 0 \/ at = {} THEN <<1, 1>>
      ELSE <<sum(at), 3 * Cardinality(at) * 255>>

\* A drift check that never finds the page changed.
shouldAbortForFrameDriftNever(prev, shot) == FALSE

\* shouldAbortForFrameDrift: prev is the signature of the last stabilized
\* frame, if there is one; shot is what the screenshot taken now gives, a
\* throw, an image without a signature, or a signature.
shouldAbortForFrameDrift(prev, shot) ==
  /\ prev.some
  /\ shot.kind = "signature"
  /\ LET d == diffRatio(prev.sig, shot.sig) IN d[1] * 100 > 4 * d[2]

\* A value as it reaches Number(): t is "number", "text" (a text that spells
\* the number m), "words" (a text that spells none), "blank" (the empty or
\* blank text), "infinity" (the text "Infinity") or "undefined".
Val(t, m) == [t |-> t, m |-> m]

\* typeof value === "number" ? value : Number(value), with Number.isFinite:
\* Number of the empty or blank text is 0, of a text that is no number NaN.
toNumber(value) ==
  [finite |-> value.t \in {"number", "text", "blank"},
   m |-> IF value.t \in {"number", "text"} THEN value.m ELSE 0]

denormalizeCoord(value, max) ==
  LET n == toNumber(value)
  IN  IF ~n.finite THEN 0
      ELSE IF n.m >= 0 /\ n.m <= 10
           THEN Max(0, Min(max, round(n.m * max, 10)))
           ELSE Max(0, Min(max, round(n.m * max, 10000)))

\* The viewport the size script reports; a result without numbers falls back
\* to the default screen.
screenOf(screen) ==
  IF screen.numbers THEN [w |-> screen.w, h |-> screen.h]
  ELSE [w |-> DEFAULT_COMPUTER_USE_SCREEN_WIDTH, h |-> DEFAULT_COMPUTER_USE_SCREEN_HEIGHT]

\* dx <= 24 || (w > 0 && dx / w <= 0.08)
closeEnough(f, w) == Abs(f - w) <= 24 \/ (w > 0 /\ Abs(f - w) * 100 <= 8 * w)

\* A clamp that lets every pixel through.
clampToViewportNone(v, viewportMax) == v

clampToViewport(v, viewportMax) == Max(0, Min(viewportMax, v))

\* The pixel a coordinate value maps to on one axis: f is the stored crop
\* size of that axis (0 when no frame is stored), off its stored offset, w the
\* live viewport size.
mapCoord(value, f, off, w) ==
  LET max == IF f > 0 /\ closeEnough(f, w) THEN f ELSE w
      viewportMax == Max(0, w - 1)
      denormMax == Max(0, max - 1)
  IN  clampToViewport(off + denormalizeCoord(value, denormMax), viewportMax)

Pointer(type, x, y) == [type |-> type, x |-> x, y |-> y]

Returned(ok, error, events, navigated, pt) ==
  [threw |-> FALSE, ok |-> ok, error |-> error, events |-> events,
   navigated |-> navigated, x |-> pt[1], y |-> pt[2], destX |-> pt[3], destY |-> pt[4]]

Thrown(error) ==
  [threw |-> TRUE, ok |-> FALSE, error |-> error, events |-> <<>>,
   navigated |-> FALSE, x |-> 0, y |-> 0, destX |-> 0, destY |-> 0]

\* executeComputerUseAction on the invocation c.name(c.args), on a surface in
\* condition c.surface.
executeComputerUseAction(c) ==
  IF c.surface = "no tab" THEN Thrown("no active tab")
  ELSE IF c.surface = "script rejects" THEN Thrown("script")
  ELSE
    LET s == screenOf(c.screen)
        x == mapCoord(c.args.x, c.frame.cropWidthCss, c.frame.offsetXCss, s.w)
        y == mapCoord(c.args.y, c.frame.cropHeightCss, c.frame.offsetYCss, s.h)
        destX == mapCoord(c.args.destination_x, c.frame.cropWidthCss, c.frame.offsetXCss, s.w)
        destY == mapCoord(c.args.destination_y, c.frame.cropHeightCss, c.frame.offsetYCss, s.h)
        pt == <<x, y, destX, destY>>
        caught == c.surface = "destroyed"
        drifted == shouldAbortForFrameDrift(c.last, c.shot)
    IN  CASE c.name = "open_web_browser" -> Returned(TRUE, "", <<>>, FALSE, pt)
          [] c.name = "navigate" ->
               IF ~c.args.url THEN Returned(FALSE, "missing url", <<>>, FALSE, pt)
               ELSE IF caught THEN Returned(FALSE, "surface", <<>>, FALSE, pt)
               ELSE Returned(TRUE, "", <<>>, TRUE, pt)
          [] c.name = "wait" -> Returned(TRUE, "", <<>>, FALSE, pt)
          [] c.name = "click_at" ->
               IF drifted THEN Returned(FALSE, "page changed", <<>>, FALSE, pt)
               ELSE IF caught THEN Returned(FALSE, "surface", <<>>, FALSE, pt)
               ELSE Returned(TRUE, "",
                             <<Pointer("mouseMove", x, y), Pointer("mouseDown", x, y),
                               Pointer("mouseUp", x, y)>>, FALSE, pt)
          [] c.name = "hover_at" ->
               IF drifted THEN Returned(FALSE, "page changed", <<>>, FALSE, pt)
               ELSE IF caught THEN Returned(FALSE, "surface", <<>>, FALSE, pt)
               ELSE Returned(TRUE, "", <<Pointer("mouseMove", x, y)>>, FALSE, pt)
          [] c.name = "scroll_document" ->
               IF caught THEN Returned(FALSE, "surface", <<>>, FALSE, pt)
               ELSE Returned(TRUE, "",
                             <<Pointer("mouseMove", round(s.w, 2), round(s.h, 2)),
                               Pointer("mouseWheel", round(s.w, 2), round(s.h, 2))>>,
                             FALSE, pt)
          [] c.name = "drag_and_drop" ->
               IF drifted THEN Returned(FALSE, "page changed", <<>>, FALSE, pt)
               ELSE IF caught THEN Returned(FALSE, "surface", <<>>, FALSE, pt)
               ELSE Returned(TRUE, "",
                             <<Pointer("mouseMove", x, y), Pointer("mouseDown", x, y),
                               Pointer("mouseMove", destX, destY),
                               Pointer("mouseUp", destX, destY)>>, FALSE, pt)
          [] OTHER -> Returned(FALSE, "unsupported", <<>>, FALSE, pt)

\* Two names the switch does not know.
UnknownNames == {"fly_to", "unknown_action"}

\* One call of executeComputerUseAction: every modelled name and two unknown
\* ones on every surface, viewport and stored frame, the same names with and
\* without a last stabilized frame next to what the page shows now, and drags
\* over a range of coordinate values.
InitExec ==
  LET KnownNames ==
        {"open_web_browser", "navigate", "wait", "click_at", "hover_at",
         "scroll_document", "drag_and_drop"}
      Surfaces == {"healthy", "destroyed", "script rejects", "no tab"}
      NoLast == [some |-> FALSE, sig |-> <<>>]
      Lasts == {NoLast, [some |-> TRUE, sig |-> <<>>],
                [some |-> TRUE, sig |-> <<10, 10, 10, 255>>]}
      Shots == {[kind |-> "throws", sig |-> <<>>], [kind |-> "no signature", sig |-> <<>>]}
               \cup {[kind |-> "signature", sig |-> sig] :
                       sig \in {<<>>, <<10, 10, 10, 255>>, <<20, 20, 20, 255>>,
                                <<21, 20, 20, 255>>, <<200, 10, 10, 255>>}}
      CoordValues ==
        {Val("undefined", 0), Val("words", 0), Val("text", 2500), Val("number", -50),
         Val("number", 0), Val("number", 5), Val("number", 10), Val("number", 20),
         Val("number", 5000), Val("number", 10000), Val("number", 15000)}
      Screens ==
        {[numbers |-> FALSE, w |-> 0, h |-> 0], [numbers |-> TRUE, w |-> 1, h |-> 1],
         [numbers |-> TRUE, w |-> 100, h |-> 80], [numbers |-> TRUE, w |-> 1440, h |-> 900]}
      Frames0 == [cropWidthCss |-> 0, cropHeightCss |-> 0, offsetXCss |-> 0, offsetYCss |-> 0]
      Frames ==
        {Frames0,
         [cropWidthCss |-> 100, cropHeightCss |-> 80, offsetXCss |-> 0, offsetYCss |-> 0],
         [cropWidthCss |-> 1500, cropHeightCss |-> 900, offsetXCss |-> 0, offsetYCss |-> 0],
         [cropWidthCss |-> 1440, cropHeightCss |-> 2000, offsetXCss |-> 0, offsetYCss |-> 0]}
      DefaultArgs ==
        [x |-> Val("number", 5000), y |-> Val("number", 5000),
         destination_x |-> Val("number", 6000), destination_y |-> Val("number", 6000),
         url |-> TRUE]
      PointArgs ==
        {[x |-> vx, y |-> vy, destination_x |-> dx, destination_y |-> vy, url |-> FALSE] :
           vx \in CoordValues, dx \in CoordValues,
           vy \in {Val("words", 0), Val("number", -50), Val("number", 9),
                   Val("number", 15000)}}
      ExecCall(name, args, surface, screen, frame, last, shot) ==
        [fn |-> "executeComputerUseAction", name |-> name, args |-> args,
         surface |-> surface, screen |-> screen, frame |-> frame, last |-> last,
         shot |-> shot, done |-> FALSE, result |-> Thrown("")]
  IN  /\ IdleSession
      /\ call \in
           {ExecCall(name, args, surface, screen, frame, NoLast, shot) :
              name \in KnownNames \cup UnknownNames,
              args \in {DefaultArgs, [DefaultArgs EXCEPT !.url = FALSE]},
              surface \in Surfaces, screen \in Screens, frame \in Frames,
              shot \in {s \in Shots : s.kind = "throws"}}
           \cup
           {ExecCall(name, DefaultArgs, surface, screen, Frames0, last, shot) :
              name \in KnownNames \cup UnknownNames, surface \in Surfaces,
              screen \in Screens, last \in Lasts, shot \in Shots}
           \cup
           {ExecCall("drag_and_drop", args, "healthy", screen, frame, NoLast, shot) :
              args \in PointArgs, screen \in Screens, frame \in Frames,
              shot \in {s \in Shots : s.kind = "throws"}}

Execute ==
  /\ call.fn = "executeComputerUseAction"
  /\ ~call.done
  /\ call' = [call EXCEPT !.done = TRUE, !.result = executeComputerUseAction(call)]
  /\ UNCHANGED <<controllerVars, storeVars>>

SpecExec == InitExec /\ [][Execute]_vars

\* ------------------------------------------------ navigation delta parser
\* Texts are sequences of character codes: 13 carriage return, 10 line feed,
\* 32 space, 47 '/', 58 ':', 123 '{'.
startsWithAt(s, i, w) == i + Len(w) - 1 <= Len(s) /\ SubSeq(s, i, i + Len(w) - 1) = w

includes(s, w) == \E i \in 1..Len(s) : startsWithAt(s, i, w)

\* \b between the characters i-1 and i of s; \w is a digit, a letter or '_'.
boundaryAt(s, i) ==
  LET IsWord(c) == c \in (48..57) \cup (65..90) \cup (97..122) \cup {95}
  IN  (i > 1 /\ IsWord(s[i - 1])) # (i <= Len(s) /\ IsWord(s[i]))

\* The first index from i on whose character is outside set, Len(s) + 1 when
\* there is none: the end of a greedy \s* (set "s") or \d* (set "d") that
\* starts at i.
skip(s, i, class) ==
  LET set == IF class = "d" THEN 48..57 ELSE {c \in 0..127 : IsSpace(c)} IN
  CHOOSE j \in i..(Len(s) + 1) :
    /\ j = Len(s) + 1 \/ s[j] \notin set
    /\ \A k \in i..(j - 1) : s[k] \in set

RECURSIVE digitsValue(_)
digitsValue(ds) ==
  IF ds = <<>> THEN 0 ELSE 10 * digitsValue(SubSeq(ds, 1, Len(ds) - 1)) + (ds[Len(ds)] - 48)

\* split(/\r?\n/)
RECURSIVE splitCRLF(_, _, _)
splitCRLF(s, i, line) ==
  IF i > Len(s) THEN <<line>>
  ELSE IF s[i] = 10
  THEN <<IF line # <<>> /\ line[Len(line)] = 13 THEN SubSeq(line, 1, Len(line) - 1)
         ELSE line>> \o splitCRLF(s, i + 1, <<>>)
  ELSE splitCRLF(s, i + 1, Append(line, s[i]))

\* The character codes of the words the parser looks for.
Keyword(w) ==
  CASE w = "computer use" ->
         <<99, 111, 109, 112, 117, 116, 101, 114, 32, 117, 115, 101>>
    [] w = "step" ->
         <<115, 116, 101, 112>>
    [] w = "done" ->
         <<100, 111, 110, 101>>
    [] w = "no more actions" ->
         <<110, 111, 32, 109, 111, 114, 101, 32, 97, 99, 116, 105, 111, 110, 115>>
    [] w = "type_text" ->
         <<116, 121, 112, 101, 95, 116, 101, 120, 116>>
    [] w = "search" ->
         <<115, 101, 97, 114, 99, 104>>
    [] w = "click" ->
         <<99, 108, 105, 99, 107>>
    [] w = "hover" ->
         <<104, 111, 118, 101, 114>>
    [] w = "drag" ->
         <<100, 114, 97, 103>>
    [] w = "scroll" ->
         <<115, 99, 114, 111, 108, 108>>
    [] w = "navigate" ->
         <<110, 97, 118, 105, 103, 97, 116, 101>>
    [] w = "open_page" ->
         <<111, 112, 101, 110, 95, 112, 97, 103, 101>>
    [] w = "open_url" ->
         <<111, 112, 101, 110, 95, 117, 114, 108>>
    [] w = "openurl" ->
         <<111, 112, 101, 110, 117, 114, 108>>
    [] w = "go_back" ->
         <<103, 111, 95, 98, 97, 99, 107>>
    [] w = "go_forward" ->
         <<103, 111, 95, 102, 111, 114, 119, 97, 114, 100>>
    [] w = "open_web_browser" ->
         <<111, 112, 101, 110, 95, 119, 101, 98, 95, 98, 114, 111, 119, 115, 101, 114>>
    [] w = "wait" ->
         <<119, 97, 105, 116>>
    [] w = "key" ->
         <<107, 101, 121>>

\* line.replace(/^Computer Use\s*:\s*/i, "")
stripComputerUse(line) ==
  LET j == skip(line, Len(Keyword("computer use")) + 1, "s")
  IN  IF startsWithAt(toLowerCase(line), 1, Keyword("computer use")) /\ j <= Len(line) /\ line[j] = 58
      THEN SubSeq(line, skip(line, j + 1, "s"), Len(line))
      ELSE line

\* The first match of /\bstep\s+(\d+)\s*\/\s*(\d+)\b/i in s: its two numbers,
\* ok when there is a match.
stepMatch(s) ==
  LET matchAt(i) ==
        LET j == skip(s, i + 4, "s")
            k == skip(s, j, "d")
            l == skip(s, k, "s")
            m == skip(s, l + 1, "s")
            n == skip(s, m, "d")
        IN  IF /\ startsWithAt(toLowerCase(s), i, Keyword("step"))
               /\ boundaryAt(s, i)
               /\ j > i + 4
               /\ k > j
               /\ l <= Len(s)
               /\ s[l] = 47
               /\ n > m
               /\ boundaryAt(s, n)
            THEN [ok |-> TRUE, current |-> digitsValue(SubSeq(s, j, k - 1)),
                  total |-> digitsValue(SubSeq(s, m, n - 1))]
            ELSE [ok |-> FALSE, current |-> 0, total |-> 0]
      at == {i \in 1..Len(s) : matchAt(i).ok}
  IN  IF at = {} THEN [ok |-> FALSE, current |-> 0, total |-> 0]
      ELSE matchAt(CHOOSE i \in at : \A q \in at : i <= q)

\* /\bdone\b/i.test(cleaned) && /no more actions/i.test(cleaned)
doneMatch(s) ==
  /\ \E i \in 1..Len(s) :
       /\ startsWithAt(toLowerCase(s), i, Keyword("done"))
       /\ boundaryAt(s, i)
       /\ boundaryAt(s, i + Len(Keyword("done")))
  /\ includes(toLowerCase(s), Keyword("no more actions"))

\* JSON.parse inside its try block, on the argument texts the runs print,
\* "{}" and "{"url":"a"}": any other text that is put together from the pieces
\* is no JSON and gives null, as the absent argument text does.
parseArgs(jsonPart) ==
  LET NoArgs == [object |-> FALSE, url |-> <<>>, href |-> <<>>, destination |-> <<>>,
                 text |-> <<>>, enter |-> FALSE]
  IN  IF jsonPart = <<123, 125>> THEN [NoArgs EXCEPT !.object = TRUE]
      ELSE IF jsonPart = <<123, 34, 117, 114, 108, 34, 58, 34, 97, 34, 125>>
      THEN [NoArgs EXCEPT !.object = TRUE, !.url = <<97>>]
      ELSE NoArgs

getUrlFromArgs(parsedArgs) ==
  IF trim(parsedArgs.url) # <<>> THEN trim(parsedArgs.url)
  ELSE IF trim(parsedArgs.href) # <<>> THEN trim(parsedArgs.href)
  ELSE IF trim(parsedArgs.destination) # <<>> THEN trim(parsedArgs.destination)
  ELSE <<>>

\* A line of the overlay: its wording and what it quotes, if anything.
prettyFromActionLine(cleaned) ==
  LET Pretty(wording, quoted) == [wording |-> wording, quoted |-> quoted]
      brace == {i \in 1..Len(cleaned) : cleaned[i] = 123}
      jsonStart == IF brace = {} THEN 0 ELSE CHOOSE i \in brace : \A q \in brace : i <= q
      actionPart == trim(IF jsonStart > 0 THEN SubSeq(cleaned, 1, jsonStart - 1) ELSE cleaned)
      jsonPart == IF jsonStart > 0 THEN trim(SubSeq(cleaned, jsonStart, Len(cleaned))) ELSE <<>>
      parsedArgs == parseArgs(jsonPart)
      lowerAction == toLowerCase(actionPart)
  IN  IF includes(lowerAction, Keyword("type_text"))
      THEN Pretty(IF parsedArgs.enter THEN "Submitting" ELSE "Typing", parsedArgs.text)
      ELSE IF includes(lowerAction, Keyword("search")) THEN Pretty("Searching", <<>>)
      ELSE IF includes(lowerAction, Keyword("click")) THEN Pretty("Clicking element", <<>>)
      ELSE IF includes(lowerAction, Keyword("hover")) THEN Pretty("Hovering", <<>>)
      ELSE IF includes(lowerAction, Keyword("drag")) THEN Pretty("Dragging", <<>>)
      ELSE IF includes(lowerAction, Keyword("scroll")) THEN Pretty("Scrolling", <<>>)
      ELSE IF \/ includes(lowerAction, Keyword("navigate"))
              \/ includes(lowerAction, Keyword("open_page"))
              \/ includes(lowerAction, Keyword("open_url"))
              \/ includes(lowerAction, Keyword("openurl"))
      THEN Pretty("Opening page", getUrlFromArgs(parsedArgs))
      ELSE IF includes(lowerAction, Keyword("go_back")) THEN Pretty("Going back", <<>>)
      ELSE IF includes(lowerAction, Keyword("go_forward")) THEN Pretty("Going forward", <<>>)
      ELSE IF includes(lowerAction, Keyword("open_web_browser")) THEN Pretty("Opening browser", <<>>)
      ELSE IF includes(lowerAction, Keyword("wait")) THEN Pretty("Waiting", <<>>)
      ELSE IF includes(lowerAction, Keyword("key")) THEN Pretty("Pressing keys", <<>>)
      ELSE Pretty("Continuing", <<>>)

\* The loop over the complete lines, from line i on.
RECURSIVE parseLines(_, _)
parseLines(lines, i) ==
  IF i > Len(lines) THEN [prettyLines |-> <<>>, steps |-> <<>>, sawDone |-> FALSE]
  ELSE LET line == trim(lines[i])
           cleaned == trim(stripComputerUse(line))
           step == stepMatch(cleaned)
           here ==
             IF line = <<>> THEN [prettyLines |-> <<>>, steps |-> <<>>, sawDone |-> FALSE]
             ELSE IF step.ok
             THEN [prettyLines |-> <<>>,
                   steps |-> <<[current |-> step.current, total |-> step.total]>>,
                   sawDone |-> FALSE]
             ELSE IF doneMatch(cleaned)
             THEN [prettyLines |-> <<>>, steps |-> <<>>, sawDone |-> TRUE]
             ELSE [prettyLines |-> <<prettyFromActionLine(cleaned)>>, steps |-> <<>>,
                   sawDone |-> FALSE]
           rest == parseLines(lines, i + 1)
       IN  [prettyLines |-> here.prettyLines \o rest.prettyLines,
            steps |-> here.steps \o rest.steps,
            sawDone |-> here.sawDone \/ rest.sawDone]

\* A parser that forgets the unfinished line.
nextBufferForgotten(parts) == <<>>

\* parts[parts.length - 1]
nextBufferOf(parts) == parts[Len(parts)]

parseComputerUseNavigationDelta(delta, buffer) ==
  LET parts == splitCRLF(buffer \o delta, 1, <<>>)
      completeLines == SubSeq(parts, 1, Len(parts) - 1)
      parsed == parseLines(completeLines, 1)
  IN  [nextBuffer |-> nextBufferOf(parts), prettyLines |-> parsed.prettyLines,
       steps |-> parsed.steps, sawDone |-> parsed.sawDone]

MaxPieces == 3

\* The pieces the navigation texts of a run are made of: line ends, a space,
\* "Computer Use: ", "step 1/2", "done (no more actions).",
\* "action click_at {}" and "navigate {"url":"a"}".
Pieces ==
  {<<>>, <<13>>, <<10>>, <<32>>,
   <<67, 111, 109, 112, 117, 116, 101, 114, 32, 85, 115, 101, 58, 32>>,
   <<115, 116, 101, 112, 32, 49, 47, 50>>,
   <<100, 111, 110, 101, 32, 40, 110, 111, 32, 109, 111, 114, 101, 32, 97, 99, 116, 105, 111, 110, 115, 41, 46>>,
   <<97, 99, 116, 105, 111, 110, 32, 99, 108, 105, 99, 107, 95, 97, 116, 32, 123, 125>>,
   <<110, 97, 118, 105, 103, 97, 116, 101, 32, 123, 34, 117, 114, 108, 34, 58, 34, 97, 34, 125>>}

RECURSIVE TextsOf(_)
TextsOf(n) ==
  IF n = 0 THEN {<<>>} ELSE {t \o p : t \in TextsOf(n - 1), p \in Pieces}

\* A text of up to MaxPieces pieces, the place where it is cut in two, and the
\* buffer left by earlier deltas: empty, or an unfinished line that ends in a
\* carriage return.
InitDelta ==
  LET NoParse == [nextBuffer |-> <<>>, prettyLines |-> <<>>, steps |-> <<>>,
                  sawDone |-> FALSE]
  IN  /\ IdleSession
      /\ maxSteps = 1
      /\ \E s \in TextsOf(MaxPieces), b \in {<<>>, <<120, 13>>} :
           \E cut \in 0..Len(s) :
             call = [fn |-> "parseComputerUseNavigationDelta", s |-> s, cut |-> cut,
                     buffer |-> b, pc |-> "first", first |-> NoParse, second |-> NoParse,
                     whole |-> NoParse]

\* The delta arrives in two pieces, and the first piece is parsed.
ParseFirst ==
  /\ call.fn = "parseComputerUseNavigationDelta"
  /\ call.pc = "first"
  /\ call' = [call EXCEPT !.pc = "second",
                          !.first = parseComputerUseNavigationDelta(SubSeq(call.s, 1, call.cut),
                                                                    call.buffer)]
  /\ UNCHANGED <<controllerVars, storeVars>>

\* The second piece is parsed with the buffer the first call returned.
ParseSecond ==
  /\ call.fn = "parseComputerUseNavigationDelta"
  /\ call.pc = "second"
  /\ call' = [call EXCEPT !.pc = "whole",
                          !.second = parseComputerUseNavigationDelta(
                                       SubSeq(call.s, call.cut + 1, Len(call.s)),
                                       call.first.nextBuffer)]
  /\ UNCHANGED <<controllerVars, storeVars>>

\* The same delta arrives in one piece.
ParseWhole ==
  /\ call.fn = "parseComputerUseNavigationDelta"
  /\ call.pc = "whole"
  /\ call' = [call EXCEPT !.pc = "done",
                          !.whole = parseComputerUseNavigationDelta(call.s, call.buffer)]
  /\ UNCHANGED <<controllerVars, storeVars>>

SpecDelta == InitDelta /\ [][ParseFirst \/ ParseSecond \/ ParseWhole]_vars

\* --------------------------------------------------------- frame capture
\* The options captureActiveTabPngBase64 passes to captureStableTabScreenshot.
StableTimeoutOption == 2000
StableIntervalOption == 250
maxAttempts == 3

\* The 96x60 bitmap of a capture, cut down to the bytes that tell the cases
\* apart: of an empty image and of a page.
EmptySignature == <<>>
PageSignature == <<10, 10, 10, 255>>

\* A comparison that never finds two frames alike.
isStableFrameNever(prevSmall, smallBuf) == FALSE

\* Number.isFinite(d) && d <= 0.018
isStableFrame(prevSmall, smallBuf) ==
  LET d == diffRatio(prevSmall, smallBuf) IN d[1] * 1000 <= 18 * d[2]

\* A backoff that does not grow.
backoffMsFlat(attempt) == 150

\* 150 * attempt
backoffMs(attempt) == 150 * attempt

\* captureStableTabScreenshot before its first capture. prevSmall and lastFull
\* are 0 for null; an image is the number of the capture that made it.
CaptureCall ==
  [fn |-> "captureActiveTabPngBase64", pc |-> "attempt", attempt |-> 1, backoffs |-> <<>>,
   stable |-> [now |-> 0, hasPrev |-> FALSE, prevSmall |-> <<>>, lastFull |-> 0,
               sigs |-> <<>>, captures |-> 0, returned |-> FALSE, result |-> 0]]

InCapture(p) == call.fn = "captureActiveTabPngBase64" /\ call.pc = p

\* Math.max(lo, Math.min(hi, Math.round(v))) of the two options.
timeoutMs == Max(250, Min(10000, StableTimeoutOption))
intervalMs == Max(75, Min(1500, StableIntervalOption))

\* The catch of an attempt: the backoff, then the next attempt, or the throw
\* after the last one.
attemptFailed(c) ==
  IF c.attempt < maxAttempts
  THEN [c EXCEPT !.pc = "attempt", !.attempt = @ + 1,
                 !.backoffs = Append(@, backoffMs(c.attempt))]
  ELSE [c EXCEPT !.pc = "thrown"]

\* sendChatMessage and geminiComputerUseLoop reach the capture of the prompt
\* frame.
CaptureBegins ==
  /\ LoopEnter(1)
  /\ call' = CaptureCall
  /\ UNCHANGED <<given, storeVars>>

\* An attempt up to the call of captureStableTabScreenshot.
AttemptStarts ==
  /\ InCapture("attempt")
  /\ call' = [call EXCEPT !.pc = "stable", !.stable = CaptureCall.stable]
  /\ UNCHANGED <<controllerVars, storeVars>>

\* No tab is active when the attempt starts.
AttemptWithoutTab ==
  /\ InCapture("attempt")
  /\ call' = attemptFailed(call)
  /\ UNCHANGED <<controllerVars, storeVars>>

\* One round of the polling loop: a capture with signature sig that took dur,
\* the comparison with the capture before it, and the wait.
StableCapture(sig, dur) ==
  /\ InCapture("stable")
  /\ call.stable.now < timeoutMs
  /\ LET s == call.stable
         n == s.captures + 1
         s1 == [s EXCEPT !.now = @ + dur, !.captures = n, !.lastFull = n,
                         !.sigs = Append(@, sig)]
     IN  call' =
           IF s.hasPrev /\ isStableFrame(s.prevSmall, sig)
           THEN [call EXCEPT !.pc = "encode",
                             !.stable = [s1 EXCEPT !.returned = TRUE, !.result = n]]
           ELSE [call EXCEPT !.stable = [s1 EXCEPT !.hasPrev = TRUE, !.prevSmall = sig,
                                                   !.now = @ + intervalMs]]
  /\ UNCHANGED <<controllerVars, storeVars>>

\* The capture comes back but cannot be scaled down: it is returned as it is.
StableResizeThrows(dur) ==
  /\ InCapture("stable")
  /\ call.stable.now < timeoutMs
  /\ LET n == call.stable.captures + 1
     IN  call' = [call EXCEPT !.pc = "encode",
                              !.stable = [@ EXCEPT !.now = @ + dur, !.captures = n,
                                                   !.lastFull = n, !.returned = TRUE,
                                                   !.result = n]]
  /\ UNCHANGED <<controllerVars, storeVars>>

\* tab.screenshot throws inside the loop: the loop is left, and the last
\* capture is returned if there is one.
StableCaptureThrows ==
  /\ InCapture("stable")
  /\ call.stable.now < timeoutMs
  /\ call' = IF call.stable.lastFull # 0
             THEN [call EXCEPT !.pc = "encode", !.stable.returned = TRUE,
                               !.stable.result = call.stable.lastFull]
             ELSE [call EXCEPT !.pc = "last_try"]
  /\ UNCHANGED <<controllerVars, storeVars>>

\* The time is up: the last capture is returned.
StableTimeout ==
  /\ InCapture("stable")
  /\ call.stable.now >= timeoutMs
  /\ call' = [call EXCEPT !.pc = "encode", !.stable.returned = TRUE,
                          !.stable.result = call.stable.lastFull]
  /\ UNCHANGED <<controllerVars, storeVars>>

\* lastFull ?? (await tab.screenshot()) with no capture so far: the capture
\* comes back, or it throws.
LastTry(captured) ==
  /\ InCapture("last_try")
  /\ LET n == call.stable.captures + 1
     IN  call' = IF captured
                 THEN [call EXCEPT !.pc = "encode",
                                   !.stable = [@ EXCEPT !.captures = n, !.returned = TRUE,
                                                        !.result = n]]
                 ELSE attemptFailed(call)
  /\ UNCHANGED <<controllerVars, storeVars>>

\* The frame is cropped, scaled and encoded, and the data is a valid PNG, which
\* the data of an empty image never is: the prompt turn is built and the first
\* model request goes out.
CaptureReturns ==
  /\ InCapture("encode")
  /\ ~(/\ call.stable.result \in 1..Len(call.stable.sigs)
       /\ call.stable.sigs[call.stable.result] = EmptySignature)
  /\ InitCaptureOk(1)
  /\ call' = [call EXCEPT !.pc = "returned"]
  /\ UNCHANGED <<given, storeVars>>

\* isValidPngBase64 rejects the data (an empty or tiny frame).
EncodeInvalid ==
  /\ InCapture("encode")
  /\ call' = attemptFailed(call)
  /\ UNCHANGED <<controllerVars, storeVars>>

\* The error of the last attempt leaves captureActiveTabPngBase64 and the run.
CaptureGivesUp ==
  /\ InCapture("thrown")
  /\ InitCaptureFail(1)
  /\ call' = [call EXCEPT !.pc = "given_up"]
  /\ UNCHANGED <<given, storeVars>>

\* A capture shows nothing, the page, or the page after it has changed, and
\* comes back at once or takes its time.
NextCapture ==
  \/ Submit(1) /\ UNCHANGED sessionFrame
  \/ CaptureBegins
  \/ AttemptStarts
  \/ AttemptWithoutTab
  \/ \E sig \in {EmptySignature, PageSignature, <<200, 10, 10, 255>>}, dur \in {50, 900} :
       StableCapture(sig, dur)
  \/ \E dur \in {50, 900} : StableResizeThrows(dur)
  \/ StableCaptureThrows
  \/ StableTimeout
  \/ LastTry(TRUE)
  \/ LastTry(FALSE)
  \/ CaptureReturns
  \/ EncodeInvalid
  \/ CaptureGivesUp

SpecCapture == Init /\ [][NextCapture]_vars

\* ----------------------------------------------------------- step budget
DefaultMaxSteps == 15
MaxStepsCap == 50

\* The budget, in tenths, that geminiComputerUseLoop derives from the value
\* of AI_COMPUTER_USE_MAX_STEPS.
maxStepsFrom(maxStepsRaw) ==
  LET n == toNumber(maxStepsRaw)
  IN  IF n.finite THEN Max(10, Min(10 * MaxStepsCap, n.m)) ELSE 10 * DefaultMaxSteps

\* Values of the environment variable: unset, texts that are no numbers, and
\* the numbers from -2 to 52 in steps of a tenth.
InitBudget ==
  /\ IdleSession
  /\ maxSteps = 1
  /\ call \in {[fn |-> "maxSteps", raw |-> v, pc |-> "read", budget |-> 0, step |-> 0] :
                 v \in {Val(t, 0) : t \in {"undefined", "words", "blank", "infinity"}}
                       \cup {Val("text", m) : m \in (-20)..(10 * MaxStepsCap + 20)}}

\* The budget is read when the loop is entered.
ReadBudget ==
  /\ call.fn = "maxSteps"
  /\ call.pc = "read"
  /\ call' = [call EXCEPT !.pc = "loop", !.budget = maxStepsFrom(call.raw)]
  /\ UNCHANGED <<controllerVars, storeVars>>

\* for (let step = 0; step < maxSteps; step++), for a model that never stops
\* by itself: one more step, or the end of the loop.
BudgetLoop ==
  /\ call.fn = "maxSteps"
  /\ call.pc = "loop"
  /\ call' = IF 10 * call.step < call.budget THEN [call EXCEPT !.step = @ + 1]
             ELSE [call EXCEPT !.pc = "stopped"]
  /\ UNCHANGED <<controllerVars, storeVars>>

SpecBudget == InitBudget /\ [][ReadBudget \/ BudgetLoop]_vars

\* ----------------------------------------------------------- the overlay
\* The overlay page and the events the runs send it.  call.state is the state
\* of the page (runId 0 for null, the text, pointer and highlight it shows);
\* call.pending holds the runs whose log line waits for their start event to
\* be delivered; call.sent, call.early, call.staleChanged and call.noEnd record
\* what was sent, for the properties below.
Ev(type, runId, text) == [type |-> type, runId |-> runId, text |-> text]

\* __bbAgentOverlay.onEvent
onEvent(state, ev) ==
  IF ev.type = "start" THEN [state EXCEPT !.runId = ev.runId]
  ELSE IF state.runId # 0 /\ ev.runId # state.runId THEN state
  ELSE IF ev.type = "end" THEN [state EXCEPT !.hideTimer = TRUE]
  ELSE LET shown == [state EXCEPT !.visible = TRUE]
       IN  CASE ev.type = "log" -> [shown EXCEPT !.step = ev.text]
             [] ev.type = "pointer" -> [shown EXCEPT !.pointer = TRUE]
             [] ev.type \in {"highlight", "highlight-point"} -> [shown EXCEPT !.highlight = TRUE]
             [] ev.type = "highlight-clear" -> [shown EXCEPT !.highlight = FALSE]

\* A run is superseded once a newer task has been submitted.
Superseded(r) == \E q \in Runs : q > r /\ run[q].pc # "idle"

\* sendOverlayEvent for each event of evs in turn, from event i on.
RECURSIVE sendOverlayEvent(_, _, _)
sendOverlayEvent(c, evs, i) ==
  IF i > Len(evs) THEN c
  ELSE LET ev == evs[i]
           after == onEvent(c.state, ev)
       IN  sendOverlayEvent(
             [c EXCEPT !.state = after,
                       !.sent[ev.runId] = @ \cup {ev.type},
                       !.early = @ \cup (IF ev.type # "start" /\ "start" \notin c.sent[ev.runId]
                                         THEN {ev.runId} ELSE {}),
                       !.staleChanged = @ \/ (/\ ev.type # "start"
                                              /\ Superseded(ev.runId)
                                              /\ after # c.state)],
             evs, i + 1)

\* What run r sends when the agent announces an invocation in this step:
\* ensureOverlayStarted sends the start event the first time, and the
\* onNavigationDelta callback, with a run id in the field, sends the log line
\* of the delta once the start event has been delivered.
announced(r) ==
  LET nav == obs'[r].navigation
      forwarded == /\ Len(nav) > Len(obs[r].navigation)
                   /\ nav[Len(nav)] \in {"action", "stopped"}
                   /\ activeGeminiComputerUseRunId # 0
      starts == ~run[r].overlayStarted /\ run'[r].overlayStarted
  IN  [events |-> (IF starts THEN <<Ev("start", r, "")>> ELSE <<>>)
                  \o (IF forwarded /\ ~starts THEN <<Ev("log", r, nav[Len(nav)])>> ELSE <<>>),
       pending |-> IF forwarded /\ starts THEN {r} ELSE {}]

\* A step of run r next to the overlay: the events it sends are delivered in
\* order, the log line that waited for the start event first.
Sends(r, evs) ==
  /\ UNCHANGED <<given, storeVars>>
  /\ LET waiting == IF r \in call.pending /\ run[r].pc = "act_pre"
                    THEN <<Ev("log", r, "action")>> ELSE <<>>
         c == sendOverlayEvent(call, waiting \o evs \o announced(r).events, 1)
     IN  call' = [c EXCEPT !.pending = (IF waiting # <<>> THEN @ \ {r} ELSE @)
                                         \cup announced(r).pending,
                           !.noEnd = @ \cup (IF /\ run'[r].pc = "done"
                                                /\ run[r].pc # "done"
                                                /\ "start" \in c.sent[r]
                                                /\ "end" \notin c.sent[r]
                                             THEN {r} ELSE {})]

\* The pointer and highlight events of click_at, which carry the run id the
\* field holds while the action executes.
pointerEvents(r) ==
  IF nextCall(run[r]) = "click_at" /\ activeGeminiComputerUseRunId # 0
  THEN <<Ev("pointer", activeGeminiComputerUseRunId, ""),
         Ev("highlight", activeGeminiComputerUseRunId, "")>>
  ELSE <<>>

\* The timer of scheduleHide fires: hideNow.
HideTimerFires ==
  /\ call.state.hideTimer
  /\ call' = [call EXCEPT !.state = [runId |-> call.state.runId, visible |-> FALSE,
                                     hideTimer |-> FALSE, step |-> "", pointer |-> FALSE,
                                     highlight |-> FALSE]]
  /\ UNCHANGED <<controllerVars, storeVars>>

InitOverlay ==
  /\ IdleSession
  /\ call = [fn |-> "__bbAgentOverlay",
             state |-> [runId |-> 0, visible |-> FALSE, hideTimer |-> FALSE, step |-> "",
                        pointer |-> FALSE, highlight |-> FALSE],
             pending |-> {}, sent |-> [r \in Runs |-> {}], early |-> {},
             staleChanged |-> FALSE, noEnd |-> {}]

\* The session next to the overlay; a decision is one click or none.
NextOverlay ==
  \/ \E r \in 1..MaxRuns : Submit(r) /\ Sends(r, <<>>)
  \/ Abort /\ UNCHANGED sessionFrame
  \/ \E r \in Runs : LoopSkip(r) /\ Sends(r, <<>>)
  \/ \E r \in Runs : LoopEnter(r) /\ Sends(r, <<>>)
  \/ \E r \in Runs : InitCaptureOk(r) /\ Sends(r, <<>>)
  \/ \E r \in Runs, calls \in {<<>>, OneClick} : StreamDone(r, calls) /\ Sends(r, <<>>)
  \/ \E r \in Runs : StreamFail(r) /\ Sends(r, <<>>)
  \/ \E r \in Runs : ActionDispatch(r) /\ Sends(r, <<>>)
  \/ \E r \in Runs : ActionReturn(r) /\ Sends(r, pointerEvents(r))
  \/ \E r \in Runs : PostCaptureOk(r) /\ Sends(r, <<>>)
  \/ \E r \in Runs :
       FinallyDone(r) /\ Sends(r, <<Ev("highlight-clear", r, ""),
                                    Ev("log", r, "Navigation complete"), Ev("end", r, "")>>)
  \/ HideTimerFires

SpecOverlay == InitOverlay /\ [][NextOverlay]_vars

\* ------------------------------------------------------- the chat panel
\* The chat message list and the chunks sent to the chat panel, next to the
\* session.  call.messages is this.messages, a message being its role, the
\* task that wrote it and the number of deltas its content holds;
\* call.response[r] and call.reasoning[r] count the chunks with content sent
\* for message id r; call.reset[r] is resetAssistantOnNextDelta of run r and
\* call.chunks[r] the stream chunks run r's model has delivered.
MaxChunks == 2

\* The index of run r's assistant message, 0 when it has none yet.
messageIndex(c, r) ==
  LET at == {i \in 1..Len(c.messages) :
               c.messages[i].role = "assistant" /\ c.messages[i].by = r}
  IN  IF at = {} THEN 0 ELSE CHOOSE i \in at : TRUE

\* geminiComputerUseLoop's onAssistantDelta callback with a non-empty delta.
onAssistantDelta(c, r) ==
  IF aborted[r] THEN c
  ELSE LET c1 == IF messageIndex(c, r) # 0 THEN c
                 ELSE [c EXCEPT !.messages =
                                  Append(@, [role |-> "assistant", by |-> r, len |-> 0])]
           idx == messageIndex(c1, r)
       IN  [c1 EXCEPT !.reset[r] = FALSE,
                      !.messages[idx].len = IF c.reset[r] THEN 1 ELSE Min(@ + 1, MaxChunks),
                      !.response[r] = @ + 1]

\* geminiComputerUseLoop's onReasoningDelta callback with a non-empty delta.
onReasoningDelta(c, r) ==
  IF aborted[r] THEN c ELSE [c EXCEPT !.reasoning[r] = @ + 1]

\* The model stream of run r delivers one chunk with a text part, which is a
\* thought or not; the agent never looks at the abort signal here.
StreamChunk(r, thought) ==
  /\ run[r].pc = "stream"
  /\ call.chunks[r] < MaxChunks
  /\ call' = [(IF thought THEN onReasoningDelta(call, r) ELSE onAssistantDelta(call, r))
                EXCEPT !.chunks[r] = @ + 1]
  /\ UNCHANGED <<controllerVars, given, storeVars>>

\* What a step of run r does to the chat panel: sendChatMessage pushes the
\* user message once its screenshot is taken, executeAction sets
\* resetAssistantOnNextDelta, and sendErrorMessage sends the error text as a
\* chat-response chunk.
Panel(r) ==
  /\ call' = [call EXCEPT
       !.messages = IF run[r].pc = "scm_wait" /\ run'[r].pc # "scm_wait"
                    THEN Append(@, [role |-> "user", by |-> r, len |-> 1])
                    ELSE @,
       !.reset[r] = @ \/ run'[r].pc \in {"act_pre", "acting"},
       !.response[r] = IF obs'[r].errorChunk /\ ~obs[r].errorChunk THEN @ + 1 ELSE @]
  /\ UNCHANGED <<given, storeVars>>

InitPanel ==
  /\ IdleSession
  /\ call = [fn |-> "chat", messages |-> <<>>, response |-> [r \in Runs |-> 0],
             reasoning |-> [r \in Runs |-> 0], reset |-> [r \in Runs |-> FALSE],
             chunks |-> [r \in Runs |-> 0]]

\* The session next to the chat panel; a decision is one click or none.
NextPanel ==
  \/ \E r \in 1..MaxRuns : Submit(r) /\ Panel(r)
  \/ Abort /\ UNCHANGED sessionFrame
  \/ \E r \in Runs : LoopSkip(r) /\ Panel(r)
  \/ \E r \in Runs : LoopEnter(r) /\ Panel(r)
  \/ \E r \in Runs : InitCaptureOk(r) /\ Panel(r)
  \/ \E r \in Runs : InitCaptureFail(r) /\ Panel(r)
  \/ \E r \in Runs, thought \in BOOLEAN : StreamChunk(r, thought)
  \/ \E r \in Runs, calls \in {<<>>, OneClick} : StreamDone(r, calls) /\ Panel(r)
  \/ \E r \in Runs : StreamFail(r) /\ Panel(r)
  \/ \E r \in Runs : ActionDispatch(r) /\ Panel(r)
  \/ \E r \in Runs : ActionReturn(r) /\ Panel(r)
  \/ \E r \in Runs : PostCaptureOk(r) /\ Panel(r)
  \/ \E r \in Runs : FinallyDone(r) /\ Panel(r)

SpecPanel == InitPanel /\ [][NextPanel]_vars

\* -------------------------------------------------------------- the tabs
\* The tabs of the window next to one task.  call.tabsMap holds the tab ids in
\* insertion order, activeTabId is 0 for null; call.started is the tab that
\* was active when the task was submitted and call.applied the tabs its
\* captures and actions went to.
MaxTabs == 2   \* tabs the user creates next to the first one

\* Window.createTab: only the first tab of a window becomes the active one.
CreateTab ==
  /\ call.fn = "Window"
  /\ call.tabCounter < 1 + MaxTabs
  /\ LET tabId == call.tabCounter + 1
     IN  call' = [call EXCEPT !.tabCounter = tabId, !.tabsMap = Append(@, tabId),
                              !.activeTabId = IF call.tabsMap = <<>> THEN tabId ELSE @]
  /\ UNCHANGED <<controllerVars, storeVars>>

\* Window.switchActiveTab
SwitchActiveTab(tabId) ==
  /\ call.fn = "Window"
  /\ \E i \in 1..Len(call.tabsMap) : call.tabsMap[i] = tabId
  /\ call' = [call EXCEPT !.activeTabId = tabId]
  /\ UNCHANGED <<controllerVars, storeVars>>

\* Window.closeTab: closing the active tab makes the first remaining one
\* active.  Closing the last tab closes the window and ends the session, so
\* that tab stays.
CloseTab(tabId) ==
  /\ call.fn = "Window"
  /\ Len(call.tabsMap) > 1
  /\ \E i \in 1..Len(call.tabsMap) : call.tabsMap[i] = tabId
  /\ LET remainingTabs == SelectSeq(call.tabsMap, LAMBDA t : t # tabId)
     IN  call' = [call EXCEPT !.tabsMap = remainingTabs,
                              !.activeTabId = IF call.activeTabId # tabId THEN @
                                              ELSE IF remainingTabs # <<>> THEN remainingTabs[1]
                                              ELSE 0]
  /\ UNCHANGED <<controllerVars, storeVars>>

\* getActiveTabOrThrow gives the tab that is active now, and the capture or
\* action of run r that asked for it is applied to that tab.
OnActiveTab(r) ==
  /\ call.fn = "Window"
  /\ call.activeTabId # 0
  /\ call' = [call EXCEPT !.applied[r] = @ \cup {call.activeTabId}]
  /\ UNCHANGED <<given, storeVars>>

InitTabs ==
  /\ IdleSession
  /\ call = [fn |-> "Window", tabCounter |-> 1, tabsMap |-> <<1>>, activeTabId |-> 1,
             started |-> [r \in Runs |-> 0], applied |-> [r \in Runs |-> {}]]

\* One task while the user creates, switches and closes tabs; every model
\* decision is one click.
NextTabs ==
  \/ CreateTab
  \/ \E tabId \in 1..(1 + MaxTabs) : SwitchActiveTab(tabId)
  \/ \E tabId \in 1..(1 + MaxTabs) : CloseTab(tabId)
  \/ /\ Submit(1)
     /\ call' = [call EXCEPT !.started[1] = call.activeTabId]
     /\ UNCHANGED <<given, storeVars>>
  \/ LoopEnter(1) /\ UNCHANGED sessionFrame
  \/ InitCaptureOk(1) /\ OnActiveTab(1)
  \/ InitCaptureFail(1) /\ UNCHANGED sessionFrame
  \/ StreamDone(1, OneClick) /\ UNCHANGED sessionFrame
  \/ ActionDispatch(1) /\ UNCHANGED sessionFrame
  \/ ActionReturn(1) /\ OnActiveTab(1)
  \/ ActionFail(1) /\ UNCHANGED sessionFrame
  \/ PostCaptureOk(1) /\ OnActiveTab(1)
  \/ PostCaptureFail(1) /\ UNCHANGED sessionFrame
  \/ FinallyDone(1) /\ UNCHANGED sessionFrame

SpecTabs == InitTabs /\ [][NextTabs]_vars

\* ================================================================ claims
InAgent == {"stream", "act_pre", "acting", "post_capture"}

\* C1: a run whose model proposes exactly one tool invocation at every step
\* and that exhausts its budget N has issued exactly N model requests and
\* executed exactly N actions, has delivered the "stopped" marker and has
\* ended; no run ever issues an (N+1)-th model request.
MaxStepsExact ==
  \A r \in Runs :
    /\ obs[r].requests <= maxSteps
    /\ (obs[r].outcome = "maxsteps" /\ obs[r].proposed = obs[r].requests)
         => /\ obs[r].requests = maxSteps
            /\ Len(run[r].executedActions) = maxSteps
            /\ run[r].pc = "done"
            /\ ~aborted[r] =>
                 /\ obs[r].navigation # <<>>
                 /\ obs[r].navigation[Len(obs[r].navigation)] = "stopped"

MaxStepsExactWitness ==
  \E r \in Runs :
    /\ obs[r].outcome = "maxsteps"
    /\ obs[r].proposed = obs[r].requests
    /\ maxSteps = MaxBudget
    /\ ~aborted[r]

NoUnansweredInvocation(h) ==
  \A i \in 1..Len(h) :
    (h[i].role = "model" /\ hasFunctionCall(h[i]))
      => /\ i < Len(h)
         /\ h[i + 1].role = "user"
         /\ h[i + 1].fr # <<>>

\* C2: when a run was cancelled in the middle of a step and a new task is
\* submitted after it, the history of every model request of the new task holds
\* no model turn with a tool invocation that is not followed at once by a
\* tool-result turn.
NewTaskHistoryClean ==
  \A r \in Runs :
    (r > 1 /\ obs[r - 1].cancelPoint \in InAgent)
      => NoUnansweredInvocation(obs[r].reqHist)

StartedInStep(r) ==
  LET started == SelectSeq(run[r].executedActions, LAMBDA e : e.step = run[r].step + 1)
  IN  [i \in 1..Len(started) |-> started[i].name]

\* C3: the invocations of a model decision are executed one at a time in the
\* order proposed: what has been started and what has returned are prefixes of
\* the decision, an action starts only when every earlier one has returned, and
\* the frame after the batch is taken only when all have returned.
BatchInOrder ==
  \A r \in Runs :
    run[r].pc \in {"act_pre", "acting", "post_capture"} =>
      LET names == StartedInStep(r)
          calls == run[r].functionCalls
          results == run[r].executedResults
      IN  /\ Len(names) <= Len(calls)
          /\ names = SubSeq(calls, 1, Len(names))
          /\ Len(results) <= Len(calls)
          /\ results = SubSeq(calls, 1, Len(results))
          /\ Len(names) = Len(results) + (IF run[r].pc = "acting" THEN 1 ELSE 0)
          /\ run[r].pc = "post_capture" => results = calls

BatchInOrderWitness ==
  \E r \in Runs :
    /\ run[r].pc = "acting"
    /\ run[r].functionCalls = <<"wait", "click_at">>
    /\ run[r].executedResults = <<"wait">>
    /\ StartedInStep(r) = <<"wait", "click_at">>

IsToolResultTurn(t) == t.role = "user" /\ ~t.text

\* C4: a step with k >= 1 invocations captures one frame, after the k actions
\* have returned and none between them, and appends one user turn with k
\* tool-result parts in invocation order, each carrying that frame.
OneFrameOneTurnPerBatch ==
  /\ \A r \in Runs :
       run[r].pc \in InAgent =>
         /\ obs[r].frames = run[r].step + 1
         /\ obs[r].turns = run[r].step
  /\ \A a \in ArrIds : \A j \in 1..Len(heap[a]) :
       LET t == heap[a][j]
       IN  IsToolResultTurn(t) =>
             /\ \E i \in 1..(j - 1) :
                  /\ heap[a][i].role = "model"
                  /\ heap[a][i].by = t.by
                  /\ heap[a][i].step = t.step
                  /\ Len(heap[a][i].fc) = Len(t.fr)
                  /\ \A k \in 1..Len(t.fr) :
                       /\ t.fr[k].name = heap[a][i].fc[k]
                       /\ t.fr[k].frame = t.step + 1
             /\ \A j2 \in 1..Len(heap[a]) :
                  (IsToolResultTurn(heap[a][j2]) /\ heap[a][j2].by = t.by
                     /\ heap[a][j2].step = t.step) => j2 = j

OneFrameOneTurnPerBatchWitness ==
  \E r \in Runs :
    /\ run[r].pc = "stream"
    /\ ~aborted[r]
    /\ LET h == heap[run[r].contents]
       IN  /\ Len(h) >= 2
           /\ IsToolResultTurn(h[Len(h)])
           /\ h[Len(h)].by = r
           /\ Len(h[Len(h)].fr) = 2
           /\ h[Len(h) - 1].fc = <<"wait", "click_at">>

\* C5: a model decision without tool invocation ends the run at that step: no
\* action, no frame, no tool-result turn and no model request follows it.
ZeroCallsFinishes ==
  \A r \in Runs :
    obs[r].zeroAt # <<>> =>
      /\ run[r].pc \in {"finally", "done"}
      /\ obs[r].requests = obs[r].zeroAt[1].requests
      /\ Len(run[r].executedActions) = obs[r].zeroAt[1].actions
      /\ obs[r].frames = obs[r].zeroAt[1].frames
      /\ obs[r].turns = obs[r].zeroAt[1].turns

ZeroCallsFinishesWitness ==
  \E r \in Runs :
    /\ obs[r].zeroAt # <<>>
    /\ obs[r].zeroAt[1].requests = 2
    /\ obs[r].outcome = "completed"

\* C6: once the abort signal of a run is raised, the run issues no further
\* model decision request.
NoRequestAfterAbort ==
  [][\A r \in Runs : aborted[r] => obs'[r].requests = obs[r].requests]_vars

\* C7: once the abort signal of a run is raised, no invocation of the run is
\* dispatched to the action executor, and the result of an action in flight is
\* not returned to the agent loop.
NoDispatchAfterAbort ==
  [][\A r \in Runs :
        aborted[r] => /\ run'[r].executedActions = run[r].executedActions
                      /\ Len(run'[r].executedResults) <= Len(run[r].executedResults)]_vars

\* C8: a run cancelled while it was running sends no error text chunk.
CancelNeverSurfaces ==
  \A r \in Runs :
    obs[r].cancelPoint \notin {"none", "finally"} => ~obs[r].errorChunk

\* C9: at most one run awaits model output or executes an action at a time.
OneRunStepping ==
  Cardinality({r \in Runs : run[r].pc \in {"stream", "acting"}}) <= 1

\* C10: no two actions execute against the surface at the same time.
OneActionAtATime ==
  Cardinality({r \in Runs : run[r].pc = "acting"}) <= 1

\* C11: when an active run that is not yet aborted is cancelled, by an abort
\* request or by the submission of a new task, a complete chunk for its message
\* id has been sent on the response, the reasoning and the navigation stream.
CancelCompletesStreams ==
  \A r \in Runs : aborted[r] => Streams \subseteq obs[r].complete

CancelCompletesStreamsWitness ==
  \E r \in Runs :
    /\ aborted[r]
    /\ obs[r].cancelPoint = "stream"
    /\ obs[r].navigation = <<>>
    /\ run[r].pc = "stream"
    /\ Streams \subseteq obs[r].complete

\* C12: the persisted history a run starts from, whatever the outcome of the
\* run before it, does not end with a model turn that holds an unanswered tool
\* invocation.
ReusedHistoryNotDangling ==
  \A r \in Runs : obs[r].reused # "dangling"

IsMixedTurn(t) == t.role = "user" /\ t.text /\ t.fr # <<>>

\* C13: in every reachable state every user turn of the history holds prompt
\* parts or tool-result parts, never both.
UserTurnsNeverMixed ==
  \A a \in ArrIds : \A i \in 1..Len(heap[a]) : ~IsMixedTurn(heap[a][i])

UserTurnsNeverMixedWitness ==
  /\ geminiComputerUseContents # 0
  /\ LET h == heap[geminiComputerUseContents]
     IN  /\ \E i \in 1..Len(h) : h[i].role = "user" /\ h[i].text
         /\ \E i \in 1..Len(h) : h[i].role = "user" /\ h[i].fr # <<>>
  /\ \E r \in Runs : obs[r].outcome = "error"
  /\ \E r \in Runs : obs[r].outcome = "cancelled"

hasMixedTurn(h) == \E i \in 1..Len(h) : IsMixedTurn(h[i])

\* C14: a history that holds, at any position, a user turn with both a text
\* part and a functionResponse part is reset to the empty history when the
\* run starts (nothing of it is kept), and the run's first model request is
\* made on the prompt turn alone.
SanitizeResetsMixed ==
  hasMixedTurn(given) =>
    /\ sanitizeGeminiComputerUseContents(given) = <<>>
    /\ run[1].pc = "init_capture" => heap[geminiComputerUseContents] = <<>>
    /\ obs[1].requests = 1 => obs[1].reqHist = <<PromptTurn(1, 1)>>

SanitizeResetsMixedWitness ==
  /\ Len(given) = MaxHist
  /\ ~IsMixedTurn(given[1])
  /\ IsMixedTurn(given[2])
  /\ ~IsMixedTurn(given[MaxHist])
  /\ obs[1].requests = 1
  /\ obs[1].reqHist = <<PromptTurn(1, 1)>>

\* C15: a history whose last turn is a model turn with an unanswered tool
\* invocation is reset to the empty history when the run starts, as a history
\* with a mixed user turn is.
SanitizeResetsDangling ==
  (endsDangling(given) /\ run[1].pc = "init_capture" /\ ~aborted[1])
    => heap[geminiComputerUseContents] = <<>>

\* C16: pruning is idempotent; its result is a prefix of the history, what it
\* removes are trailing model turns with a tool invocation, and the result
\* does not end with such a turn.
PruneIdempotent ==
  (aborted[1] /\ run[1].pc = "scm_wait") =>
    LET out == heap[geminiComputerUseContents]
    IN  /\ Len(out) <= Len(given)
        /\ out = SubSeq(given, 1, Len(out))
        /\ \A i \in (Len(out) + 1)..Len(given) :
             given[i].role = "model" /\ hasFunctionCall(given[i])
        /\ ~endsDangling(out)
        /\ pruneDanglingGeminiFunctionCalls(out) = out

PruneIdempotentWitness ==
  /\ aborted[1]
  /\ run[1].pc = "scm_wait"
  /\ Len(given) = 3
  /\ endsDangling(given)
  /\ endsDangling(SubSeq(given, 1, 2))
  /\ Len(heap[geminiComputerUseContents]) = 1

CurrentGeneral == getCurrentGeneralInstructions(BERRY_DYNAMIC_PROMPT)

LearnerEnds == learner'.done = learner.done + 1

\* C17: when the general rules are [A, B] and the learner returns [B', C],
\* B' being B up to case and whitespace, the general rules after the merge are
\* [A, B, C]: A is retained and B is not duplicated.
MergeIsAdditive ==
  [][(/\ LearnerEnds
      /\ CurrentGeneral = <<RuleA, RuleB>>
      /\ learner'.response.kind = "object"
      /\ learner'.response.general = <<RuleBVariant, RuleC>>)
       => getCurrentGeneralInstructions(BERRY_DYNAMIC_PROMPT') = <<RuleA, RuleB, RuleC>>]_vars

NoDuplicateRules(bs) ==
  \A i, j \in 1..Len(bs) : i # j => canonicalize(bs[i]) # canonicalize(bs[j])

keysOf(entries) == {entries[i].key : i \in 1..Len(entries)}

\* C19: when a merge brings the sites above 30, every site the merge learned
\* is in the store afterwards and the sites dropped are the ones that were
\* added before all the sites kept.
NewSiteKeptOldestEvicted ==
  [][(LearnerEnds /\ learner'.response.kind = "object") =>
       LET incoming == normalizePerSite(generateSelfImprovementObject(learner'.response).perSite)
           before == selfImprovementPerSite
           after == selfImprovementPerSite'
       IN  Cardinality(keysOf(before) \cup keysOf(incoming)) > SiteLimit =>
             /\ keysOf(incoming) \subseteq keysOf(after)
             /\ \A d, k \in 1..Len(before) :
                  (/\ before[d].key \notin keysOf(after)
                   /\ before[k].key \in keysOf(after)
                   /\ before[k].key \notin keysOf(incoming)) => d < k]_vars

\* A learner result without a rule: no general rule and no rule under a site.
yieldsNoRules(res) ==
  /\ \A i \in 1..Len(res.general) : trim(res.general[i]) = <<>>
  /\ \A i \in 1..Len(res.perSite) :
       \/ trim(res.perSite[i].key) = <<>>
       \/ \A j \in 1..Len(res.perSite[i].bullets) : trim(res.perSite[i].bullets[j]) = <<>>

\* C20: a learner run that fails (the generation call throws, its text is no
\* valid JSON, or it yields no rule) leaves the general rules and the per-site
\* rules as they were, sends nothing to the user and takes the in-flight count
\* down by one.
FailedLearnerLeavesStore ==
  [][(LearnerEnds /\ (learner'.response.kind \in {"throws", "invalid"}
                        \/ yieldsNoRules(learner'.response))) =>
       /\ BERRY_DYNAMIC_PROMPT' = BERRY_DYNAMIC_PROMPT
       /\ selfImprovementPerSite' = selfImprovementPerSite
       /\ obs' = obs
       /\ selfImprovementInFlightCount' = selfImprovementInFlightCount - 1]_vars

FailedLearnerLeavesStoreWitness ==
  /\ learner.done >= 2
  /\ learner.response.kind = "invalid"
  /\ CurrentGeneral # <<>>
  /\ selfImprovementPerSite # <<>>
  /\ selfImprovementInFlightCount = learner.enqueued - learner.done

canonicalKeys(bs) == {canonicalize(bs[i]) : i \in 1..Len(bs)}

\* The general rules a learner result writes, those of one line.
writtenGeneral(res) ==
  LET bs == normalizeInstructionBullets(generateSelfImprovementObject(res).general, GeneralLimit)
  IN  {canonicalize(bs[i]) : i \in {j \in 1..Len(bs) : \A c \in 1..Len(bs[j]) : bs[j][c] # 10}}

\* C21: when two learner runs overlap, a general rule written by only one of
\* them is still in the store after both have completed, whichever of the two
\* completed first.
OverlappingLearnersKeepRules ==
  [][(/\ LearnerEnds
      /\ learner.overlapped
      /\ learner.response.kind = "object"
      /\ learner'.response.kind = "object")
       => \A k \in (writtenGeneral(learner.response) \cup writtenGeneral(learner'.response)) :
            k \in canonicalKeys(getCurrentGeneralInstructions(BERRY_DYNAMIC_PROMPT'))]_vars

\* C22: a run that ended on a failure, with no cancellation requested, has sent
\* its one terminal text message and a complete chunk on the response stream,
\* on the reasoning stream, and on the navigation stream when it had sent any
\* navigation delta.
FailureClosesStreams ==
  \A r \in Runs :
    (obs[r].outcome = "error" /\ ~aborted[r])
      => /\ obs[r].errorChunk
         /\ "response" \in obs[r].complete
         /\ "reasoning" \in obs[r].complete
         /\ (obs[r].navigation # <<>> => "navigation" \in obs[r].complete)

\* A surface failure hits the action that run r is executing.
SurfaceFailureDuringAction(r) ==
  /\ run[r].pc = "acting"
  /\ ~aborted[r]
  /\ \/ obs'[r].actionThrew /\ ~obs[r].actionThrew
     \/ Len(run'[r].executedResults) > Len(run[r].executedResults) /\ ~run'[r].lastOk

\* C23: a surface failure while an action is executed gives that action a
\* result with ok=false, and the run goes on to the next invocation of the
\* batch or to the frame after the batch; it does not end the run.
SurfaceFailureIsAResult ==
  [][\A r \in Runs :
       SurfaceFailureDuringAction(r)
         => /\ Len(run'[r].executedResults) = Len(run[r].executedResults) + 1
            /\ ~run'[r].lastOk
            /\ run'[r].pc \in {"act_pre", "acting", "post_capture"}
            /\ obs'[r].outcome = "none"]_vars

\* executeComputerUseAction has been called and has ended.
Executed == call.fn = "executeComputerUseAction" /\ call.done

\* C24: for every action name outside the vocabulary, execute returns a result
\* with ok=false and an unsupported-action error and never throws, and it
\* injects no input event and performs no navigation.
UnsupportedIsAResult ==
  (Executed /\ call.name \in UnknownNames)
    => /\ ~call.result.threw
       /\ ~call.result.ok
       /\ call.result.error = "unsupported"
       /\ call.result.events = <<>>
       /\ ~call.result.navigated

\* The names whose input events are placed at coordinates the model emitted.
PointNames == {"click_at", "hover_at", "drag_and_drop"}

InsideViewport(x, y) ==
  LET s == screenOf(call.screen)
  IN  x \in 0..(s.w - 1) /\ y \in 0..(s.h - 1)

InRange(value, lo, hi) == value.t = "number" /\ value.m >= lo /\ value.m <= hi

\* C26: for a fixed viewport and frame the mapping is monotonic on [0,1] and
\* on [0,1000]: of two values of one range, the smaller never maps to the
\* right of the larger.
MappingMonotonic ==
  (/\ Executed
   /\ ~call.result.threw
   /\ \/ InRange(call.args.x, 0, 10) /\ InRange(call.args.destination_x, 0, 10)
      \/ InRange(call.args.x, 0, 10000) /\ InRange(call.args.destination_x, 0, 10000)
   /\ call.args.x.m <= call.args.destination_x.m)
    => call.result.x <= call.result.destX

\* C27: parsing a delta in two pieces, cut at any character boundary, with the
\* buffer of the first call handed to the second, gives the same pretty lines
\* and steps, the same sawDone and the same final buffer as parsing it in one
\* piece.
ParseDeltaRestartable ==
  (call.fn = "parseComputerUseNavigationDelta" /\ call.pc = "done")
    => /\ call.first.prettyLines \o call.second.prettyLines = call.whole.prettyLines
       /\ call.first.steps \o call.second.steps = call.whole.steps
       /\ (call.first.sawDone \/ call.second.sawDone) = call.whole.sawDone
       /\ call.second.nextBuffer = call.whole.nextBuffer

\* A delta cut between a carriage return and its line feed: the line before
\* the cut is only reported by the second call.
ParseDeltaRestartableWitness ==
  /\ call.fn = "parseComputerUseNavigationDelta"
  /\ call.pc = "done"
  /\ call.cut >= 1
  /\ call.cut < Len(call.s)
  /\ call.s[call.cut] = 13
  /\ call.s[call.cut + 1] = 10
  /\ call.first.steps = <<>>
  /\ call.second.steps = <<[current |-> 1, total |-> 2]>>
  /\ call.whole.steps = <<[current |-> 1, total |-> 2]>>
  /\ call.first.nextBuffer # <<>>

\* Captures k and k+1 of the current captureStableTabScreenshot call were
\* compared and the call returned right after capture k+1, with that capture.
ReturnedAtSecondOf(k) ==
  /\ Len(call.stable.sigs) = k + 1
  /\ call.stable.captures = k + 1
  /\ call.stable.returned
  /\ call.stable.result = k + 1

\* C28 as stated: when two consecutive captures have identical signatures,
\* captureStableTabScreenshot returns right after the second of them (after
\* exactly two captures when they are the first two), returning the second,
\* without polling until the timeout.
IdenticalCapturesReturn ==
  call.fn = "captureActiveTabPngBase64"
    => \A k \in 1..(Len(call.stable.sigs) - 1) :
         call.stable.sigs[k] = call.stable.sigs[k + 1] => ReturnedAtSecondOf(k)

\* C28, amended: when two consecutive captures have identical signatures that
\* are not empty, captureStableTabScreenshot returns right after the second of
\* them, returning the second, without polling until the timeout.
IdenticalFramesReturn ==
  call.fn = "captureActiveTabPngBase64"
    => \A k \in 1..(Len(call.stable.sigs) - 1) :
         (call.stable.sigs[k] = call.stable.sigs[k + 1] /\ call.stable.sigs[k] # EmptySignature)
           => ReturnedAtSecondOf(k)

\* The first two captures show the same page, and the call has returned the
\* second well before the timeout.
IdenticalFramesReturnWitness ==
  /\ call.fn = "captureActiveTabPngBase64"
  /\ call.stable.sigs = <<PageSignature, PageSignature>>
  /\ call.stable.returned
  /\ call.stable.result = 2
  /\ call.stable.now < timeoutMs

\* C29: capture is attempted at most 3 times, the waits between the attempts
\* grow, each attempt polls no longer than its timeout allows, and the error
\* thrown after the last attempt ends the run as a failure.
CaptureTerminates ==
  call.fn = "captureActiveTabPngBase64"
    => /\ call.attempt \in 1..3
       /\ Len(call.backoffs) = call.attempt - 1
       /\ \A i \in 1..(Len(call.backoffs) - 1) : call.backoffs[i] < call.backoffs[i + 1]
       /\ call.stable.captures * intervalMs <= timeoutMs + intervalMs
       /\ call.pc = "thrown" => call.attempt = 3
       /\ call.pc = "given_up" => (obs[1].outcome = "error" /\ obs[1].errorChunk
                                    /\ run[1].pc = "done" /\ obs[1].requests = 0)

\* Three attempts have failed, with waits of 150 and 300 ms between them, and
\* the run has ended with the error message.
CaptureTerminatesWitness ==
  /\ call.fn = "captureActiveTabPngBase64"
  /\ call.pc = "given_up"
  /\ call.backoffs = <<150, 300>>
  /\ obs[1].outcome = "error"

\* C30: the step budget is 15 when the configured value is absent or is not a
\* number, it lies between 1 and 50 for every configured number, and no run
\* performs more than 50 steps.
BudgetDefaultsAndCaps ==
  (call.fn = "maxSteps" /\ call.pc # "read")
    => /\ call.raw.t \in {"undefined", "words", "blank"} => call.budget = 10 * 15
       /\ call.raw.t = "text" => (call.budget >= 10 * 1 /\ call.budget <= 10 * 50)
       /\ call.step <= 50


\* C31: once a run has been superseded by a newer run, every overlay event
\* that carries its id (log, pointer, highlight, highlight-point,
\* highlight-clear, end) leaves the state of the overlay as it was, whether or
\* not the newer run has sent its start event.
StaleEventsIgnored == call.fn = "__bbAgentOverlay" => ~call.staleChanged

\* C35: no log, pointer or highlight event with a run's id is sent before the
\* start event of that run, and a run that sent start and has left the loop
\* has sent end with its id, also when an earlier cancelled run finished
\* unwinding during it.
OverlayEventsBracketed ==
  call.fn = "__bbAgentOverlay" => (call.early = {} /\ call.noEnd = {})


\* The signature of the page now differs from the signature of the last
\* stabilized frame by more than the drift threshold of 0.04.
DriftExceeds ==
  /\ call.last.some
  /\ call.shot.kind = "signature"
  /\ LET d == diffRatio(call.last.sig, call.shot.sig) IN d[1] * 100 > 4 * d[2]

\* C32: for click_at, hover_at and drag_and_drop, when the drift check against
\* the last stabilized frame exceeds the threshold, the action returns
\* ok=false with the "page changed" error and injects no pointer event.
DriftAbortsPointerActions ==
  (Executed /\ ~call.result.threw /\ call.name \in PointNames /\ DriftExceeds)
    => /\ ~call.result.ok
       /\ call.result.error = "page changed"
       /\ call.result.events = <<>>

\* A hover over a page whose signature moved just past the threshold was
\* refused.
DriftAbortsPointerActionsWitness ==
  /\ Executed
  /\ call.name = "hover_at"
  /\ call.surface = "healthy"
  /\ call.last.sig = <<10, 10, 10, 255>>
  /\ call.shot.sig = <<21, 20, 20, 255>>
  /\ DriftExceeds
  /\ call.result.error = "page changed"


\* C33: every frame capture and every action of a run is applied to the tab
\* that was active when the run started, also when the user switches, creates
\* or closes tabs while the run is in progress.
RunKeepsItsTab ==
  call.fn = "Window" => \A r \in Runs : call.applied[r] \subseteq {call.started[r]}


\* The turns of run r in the persisted history.
PersistedTurnsOf(r, field, h) ==
  IF field = 0 THEN <<>> ELSE SelectSeq(h[field], LAMBDA turn : turn.by = r)

\* C34: when a run that was not cancelled ends by completion or on its step
\* budget, every turn it appended (its prompt turn, one model turn for each model request and its
\* tool-result turns) is part of the persisted history, also when a cancelled
\* run finished unwinding while it was active.
PersistedHistoryKeepsTurns ==
  [][\A r \in Runs :
       (/\ run[r].pc # "done"
        /\ run'[r].pc = "done"
        /\ ~aborted'[r]
        /\ run'[r].exit \in {"completed", "maxsteps"})
         => Len(PersistedTurnsOf(r, geminiComputerUseContents', heap'))
              = 1 + obs'[r].requests + obs'[r].turns]_vars


\* Run q is the newest submitted run and its sendChatMessage has not returned.
NewestActive(q) == run[q].pc \notin {"idle", "done"} /\ ~Superseded(q)

\* C36: while the newest run's sendChatMessage is in progress the abort
\* controller and the active message id are that run's, whichever older
\* sendChatMessage calls finish meanwhile, and an abort request made then
\* leaves that run's abort signal raised.
SupersededRunLeavesNewerRun ==
  [][\A q \in Runs :
       /\ NewestActive(q)' => (activeRunAbortController' = q /\ activeRunMessageId' = q)
       /\ (NewestActive(q) /\ Abort) => aborted'[q]]_vars

\* A superseded run that entered the loop after run 2 did has finished,
\* run 2 is still in progress and an abort request has raised its signal.
SupersededRunLeavesNewerRunWitness ==
  /\ run[1].pc = "done"
  /\ run[2].pc \notin {"idle", "done"}
  /\ run[2].contents # 0
  /\ \E i \in 1..Len(heap[run[2].contents]) :
       /\ heap[run[2].contents][i].by = 1
       /\ \E j \in 1..(i - 1) : heap[run[2].contents][j].by = 2
  /\ activeRunMessageId = 2
  /\ activeRunAbortController = 2
  /\ aborted[2]


\* The messages of the chat message list that task r wrote.
MessagesOf(c, r) == SelectSeq(c.messages, LAMBDA m : m.by = r)

\* C37: once a run's abort signal is raised no chunk with content is sent for
\* it on the response, reasoning or navigation stream, and it neither adds a
\* message to the chat message list nor changes one.
NothingForwardedAfterAbort ==
  [][\A r \in Runs :
       (call.fn = "chat" /\ aborted[r])
         => /\ call'.response[r] = call.response[r]
            /\ call'.reasoning[r] = call.reasoning[r]
            /\ obs'[r].navigation = obs[r].navigation
            /\ MessagesOf(call', r) = MessagesOf(call, r)]_vars


\* C38: a learner run is enqueued only in the step in which a run leaves by
\* completion or on its step budget, and never for a run whose abort signal is
\* raised.
LearnerOnlyAfterCleanRun ==
  [][learner'.enqueued > learner.enqueued
       => \E r \in Runs : /\ run[r].pc # "done"
                          /\ run'[r].pc = "done"
                          /\ run'[r].exit \in {"completed", "maxsteps"}
                          /\ ~aborted[r]]_vars


\* C39: as long as a run has met no step with a tool invocation none of its
\* navigation text has reached the observers, also when it ends that way; in
\* the step that brings the first tool invocation the buffered text is what
\* the observers receive first, in the order it was buffered, followed by the
\* text of that step.
NavigationWithheld ==
  [][\A r \in Runs :
       /\ ~run'[r].hasAnyAction => obs'[r].navigation = <<>>
       /\ (~run[r].hasAnyAction /\ run'[r].hasAnyAction /\ ~aborted[r])
            => LET buffered == run[r].bufferedNavigation
               IN  /\ buffered # <<>>
                   /\ Len(obs'[r].navigation) > Len(buffered)
                   /\ SubSeq(obs'[r].navigation, 1, Len(buffered)) = buffered]_vars

\* Run 1 has ended by completion without any tool invocation and nothing of
\* its navigation text was delivered; run 2 has met its first tool invocation
\* and its step marker was delivered before the action text.
NavigationWithheldWitness ==
  /\ run[1].pc = "done"
  /\ run[1].exit = "completed"
  /\ ~run[1].hasAnyAction
  /\ obs[1].requests = 1
  /\ obs[1].navigation = <<>>
  /\ run[2].hasAnyAction
  /\ Len(obs[2].navigation) >= 2
  /\ obs[2].navigation[1] = "step"
  /\ obs[2].navigation[2] = "action"


\* C40: the learner in-flight count is never negative and is the number of
\* learner runs started and not finished; the windows have heard "active" last
\* exactly while the count is positive, no broadcast repeats the one before
\* it, and once every learner run has finished the last broadcast is
\* "inactive".
LearningIndicatorFollowsCount ==
  /\ selfImprovementInFlightCount >= 0
  /\ selfImprovementInFlightCount = learner.enqueued - learner.done
  /\ ~learner.repeated
  /\ (learner.learning = "active") <=> (selfImprovementInFlightCount > 0)
  /\ (learner.enqueued > 0 /\ learner.done = learner.enqueued)
       => learner.learning = "inactive"
  /\ (learner.learning = "none") <=> (learner.enqueued = 0)

\* Three learner runs have started, the last one to end failed, all have
\* finished and the indicator is off.
LearningIndicatorFollowsCountWitness ==
  /\ learner.enqueued = MaxLearns
  /\ learner.done = learner.enqueued
  /\ learner.response.kind = "throws"
  /\ learner.learning = "inactive"
  /\ selfImprovementInFlightCount = 0

====
